---- MODULE Spec2Model ----
(***************************************************************************)
(* The log collector of team-claude-analytics: a file watcher that tails   *)
(* .jsonl files from a persisted byte offset (collector/watcher.py), hands *)
(* every parsed line to a callback that inserts it into the storage sink   *)
(* and counts the outcome (collector/main.py), and commits the new offset  *)
(* once per pass.                                                          *)
(*                                                                         *)
(* A file is a sequence of bytes.  The bytes are "[", "]", "1", " " and    *)
(* the line terminator NL, which is enough for well-formed JSON lines      *)
(* ([] and [1]), a malformed line (]) and a blank line; the lines about    *)
(* NUL add the quote, the NUL byte and the two halves of its escape.       *)
(*                                                                         *)
(* The dashboard's review metrics (dashboard/services/metrics.py) are      *)
(* modelled as functions on the pull request row the sync job stores       *)
(* (dashboard/github/sync.py).  The sync job itself (sync.py and the paged  *)
(* fetch of dashboard/github/client.py) and the database client the sync   *)
(* thread shares with the request handlers (dashboard/db.py) follow.       *)
(***************************************************************************)
EXTENDS Integers, Sequences, FiniteSets, TLC

VARIABLES
    files,      \* path -> bytes of the watched file (append-only)
    pending,    \* path -> rest of a line whose first chunk has been written
    disk,       \* the snapshot file: Snapshot(map), Corrupt, Missing, NotADict
    pc,         \* "down" | "idle" | "reading" | "saving"
    state,      \* StateManager._state: path -> offset (0 = no entry)
    sweep,      \* files process_existing_files has not reached yet
    cur,        \* file_path of the pass in flight
    position,   \* position: the offset the pass started from
    fpos,       \* f.tell(): the stream position of the pass in flight
    sink,       \* the rows of the storage sink
    stats,      \* main.stats: inserted / skipped / errors
    calls,      \* history: what the sink calls of this process really did
    offered,    \* history: line offsets handed to on_line in this pass
    clean,      \* history: no sink call of this pass has raised
    startLen,   \* history: length of the file when this pass opened it
    fresh,      \* history: the sink held no row at or past position at open
    ioerr,      \* history: files whose latest pass failed to open
    full0,      \* history: path -> end of the latest clean pass from offset 0
    everFailed, \* history: some sink call has raised
    cut,        \* history: a crash cut a pass between an insert and its commit
    obs,        \* the observer thread of the live watch: "off" | "on"
    queue,      \* events the observer thread has still to dispatch
    pc2,        \* the second pass context: "down" | "idle" | "reading" | "saving"
    cur2,       \* its file_path
    position2,  \* its position
    fpos2,      \* its f.tell()
    state2,     \* StateManager._state of the second coordinator
    stats2,     \* stats of the second coordinator
    behind,     \* history: path -> its offset when the live watch started
                \*          with bytes of it unread, else -1
    peerAlone,  \* history: the rows the peer's calls give in a sink of its own
    reported,   \* the counters signal_handler has logged, or NotReported
    backend,    \* the storage backend: "up" | "down"
    conn,       \* DatabaseClient._conn: "none" | "live" | "stale"
    degraded,   \* history: connect or init_schema failed at boot
    reconn,     \* history: connect() in the latest insert: "no" | "connected"
                \*          | "refused"
    root,       \* the watched root directory exists
    env,        \* COLLECTOR_HOST: its characters, <<>> when unset or empty
    marker,     \* the hostname file: [exists, text]
    collector_host, \* Config.collector_host of the latest start
    pr,         \* the pull request row the dashboard works on, or None
    events,     \* what extract_review_events returned for pr
    times,      \* what get_human_review_times returned for pr
    config,     \* the dashboard's Config: [github_token, github_repos]
    github,     \* the pull requests GitHub holds: repository -> [n, k, r, down]
    spc,        \* where the sync job stands
    all_stats,  \* all_stats of sync_all_repos
    sr,         \* the frame of sync_repo: repo, stats, total_prs_fetched,
                \*   prs_to_sync, i (the index of its second loop)
    gen,        \* the frame of get_pulls_graphql: cursor, nodes, hasNextPage
    requests,   \* history: the cursors of the page requests of this sync_repo
    failures,   \* history: the failures injected so far
    db_conn,    \* the dashboard's DatabaseClient._conn: 0 (None) or the
                \*   number of the connection
    opened,     \* history: the connections made so far
    discarded,  \* history: the connections upsert_pr has dropped
    upc,        \* where the sync thread stands in upsert_pr
    ucur,       \* the connection of upsert_pr's cursor
    qpc,        \* where the request handler stands in get_prs
    qcur        \* the connection of get_prs's cursor

vars == <<files, pending, disk, pc, state, sweep, cur, position, fpos, sink,
          stats, calls, offered, clean, startLen, fresh, ioerr, full0,
          everFailed, cut, obs, queue, pc2, cur2, position2, fpos2, state2,
          stats2, behind, peerAlone, reported, backend, conn, degraded,
          reconn, root, env, marker, collector_host, pr, events, times,
          config, github, spc, all_stats, sr, gen, requests, failures,
          db_conn, opened, discarded, upc, ucur, qpc, qcur>>

(***************************************************************************)
(* Bounds and fixed names.                                                 *)
(***************************************************************************)
\* Bytes the writer puts into the watched files, all files together.
MaxBytes == 6

Paths == {"a.jsonl", "b.jsonl"}

\* The host identifier of a collector on another machine.
PeerHost == "h2"

\* A host identifier that every collector resolves alike.
HostSame == PeerHost

Host == "h1"

NL == "\n"

NoPath == "none"

\* A decoded JSON document: an object (its key/value pairs) or an array.
Object(items) == [type |-> "object", items |-> items]

EmptyArray == [type |-> "array", items |-> {}]

\* A dump that writes one entry of the map only.
dumpOne(m) ==
    LET set == {q \in Paths : m[q] # 0}
    IN  IF set = {} THEN Object({})
        ELSE Object({<<CHOOSE q \in set : TRUE, m[CHOOSE q \in set : TRUE]>>})

\* json.dump(self._state, f): the dict written as one JSON object, a pair
\* per path that has an entry.
dump(m) == Object({<<p, m[p]>> : p \in {q \in Paths : m[q] # 0}})

\* Contents of the snapshot file: whether it exists, whether it decodes as
\* JSON, and the document it decodes to.
Snapshot(m) == [exists |-> TRUE, valid |-> TRUE, map |-> dump(m)]

\* A file that does not decode: emptied by open(..., "w"), or cut short.
Corrupt == [exists |-> TRUE, valid |-> FALSE, map |-> Object({})]

\* No snapshot file.
Missing == [exists |-> FALSE, valid |-> FALSE, map |-> Object({})]

\* A file that decodes to something that is not a JSON object.
NotADict == [exists |-> TRUE, valid |-> TRUE, map |-> EmptyArray]

LineSet ==
    { <<"[", "]", NL>>, <<"[", "1", "]", NL>>, <<" ", NL>>, <<"]", NL>> }

ZeroMap == [p \in Paths |-> 0]

ZeroStats == [inserted |-> 0, skipped |-> 0, errors |-> 0]

ZeroCalls == [inserted |-> 0, duplicate |-> 0, raised |-> 0]

(***************************************************************************)
(* Text helpers of the read loop.                                          *)
(***************************************************************************)
Whitespace == {" ", NL}

\* f.readline() at stream position pos: up to and including the next NL,
\* or the unterminated rest of the file, or <<>> at end-of-file.
readline(f, pos) ==
    IF pos >= Len(f) THEN <<>>
    ELSE LET nls == {i \in (pos + 1)..Len(f) : f[i] = NL}
         IN  IF nls = {} THEN SubSeq(f, pos + 1, Len(f))
             ELSE SubSeq(f, pos + 1, CHOOSE i \in nls : \A j \in nls : i <= j)

RECURSIVE lstrip(_)
lstrip(s) ==
    IF s # <<>> /\ Head(s) \in Whitespace THEN lstrip(Tail(s)) ELSE s

RECURSIVE rstrip(_)
rstrip(s) ==
    IF s # <<>> /\ s[Len(s)] \in Whitespace
    THEN rstrip(SubSeq(s, 1, Len(s) - 1)) ELSE s

\* str.strip()
strip(s) == rstrip(lstrip(s))

\* The NUL forms in a line: the literal byte, and the six characters of the
\* escape, written here in two halves, backslash-u-0-0 and 0-0.
NulByte == "\\x00"

NulEscape == <<"\\u00", "00">>

QUOTE == "\""

IsNul(c) == c = NulByte

NotNul(c) == ~IsNul(c)

\* line.replace("\\u0000", ""): every occurrence found in one scan from
\* the left is left out; the scan goes on behind an occurrence.
RECURSIVE replace(_)
replace(s) ==
    IF Len(s) < 2 THEN s
    ELSE IF SubSeq(s, 1, 2) = NulEscape THEN replace(SubSeq(s, 3, Len(s)))
         ELSE <<Head(s)>> \o replace(Tail(s))

\* line.replace("\\u0000", "").replace("\x00", "")
sanitize(s) == SelectSeq(replace(s), NotNul)

\* json.loads accepts: a number (1, 11, 100, ...), a string, or an array
\* [] / [value], with whitespace allowed around values.
IsOne(c) == c = "1"

IsDigits(c) == c \in {"1", "00"}

IsNumber(s) == s # <<>> /\ IsOne(s[1]) /\ SelectSeq(s, IsDigits) = s

\* The characters between the quotes of a string: no quote, no control
\* character, and backslash-u only with four hex digits behind it.
RECURSIVE IsChars(_)
IsChars(s) ==
    \/ s = <<>>
    \/ /\ Len(s) >= 2
       /\ s[1] = NulEscape[1]
       /\ s[2] = "00"
       /\ IsChars(SubSeq(s, 3, Len(s)))
    \/ /\ Len(s) >= 3
       /\ s[1] = NulEscape[1]
       /\ s[2] = "1"
       /\ s[3] = "1"
       /\ IsChars(SubSeq(s, 4, Len(s)))
    \/ /\ s[1] \notin {NulEscape[1], NulByte, QUOTE, NL}
       /\ IsChars(Tail(s))

IsString(s) ==
    /\ Len(s) >= 2
    /\ s[1] = QUOTE
    /\ s[Len(s)] = QUOTE
    /\ IsChars(SubSeq(s, 2, Len(s) - 1))

\* A parser that takes any non-blank text.
IsJsonAnyText(s) == strip(s) # <<>>

RECURSIVE IsJson(_)
IsJson(s) ==
    LET t == strip(s)
    IN  \/ IsNumber(t)
        \/ IsString(t)
        \/ /\ Len(t) >= 2
           /\ t[1] = "["
           /\ t[Len(t)] = "]"
           /\ LET inner == SubSeq(t, 2, Len(t) - 1)
              IN  strip(inner) = <<>> \/ IsJson(inner)

NotSpace(c) == c \notin Whitespace

\* The text of s without the whitespace that stands outside strings.
RECURSIVE Compact(_, _)
Compact(s, inString) ==
    IF s = <<>> THEN <<>>
    ELSE IF Head(s) = QUOTE
         THEN <<QUOTE>> \o Compact(Tail(s), ~inString)
         ELSE IF inString \/ NotSpace(Head(s))
              THEN <<Head(s)>> \o Compact(Tail(s), inString)
              ELSE Compact(Tail(s), inString)

\* The value json.loads returns, written without insignificant whitespace.
loads(s) == Compact(s, FALSE)

(***************************************************************************)
(* The Progress Store (StateManager).                                      *)
(***************************************************************************)
\* A load that never reads the snapshot.
LoadNothing(d) == ZeroMap

\* json.load(f) of a file that decodes: a JSON object becomes a dict (a
\* path without a pair reads as 0 through get_position's default), any
\* other document is returned as it is.
json_load(doc) ==
    IF doc.type = "object"
    THEN [p \in Paths |->
            IF \E e \in doc.items : e[1] = p
            THEN (CHOOSE e \in doc.items : e[1] = p)[2]
            ELSE 0]
    ELSE doc

\* StateManager._load: a missing or undecodable snapshot gives the empty map.
Load(d) == IF d.exists /\ d.valid THEN json_load(d.map) ELSE ZeroMap

\* self._state is a dict: _state.get exists.
IsDict(st) == DOMAIN st = Paths

\* A lookup that always takes the default.
get_positionDefault(st, p) == 0

get_position(st, p) == st[p]

\* A seek that is left out: the stream stays at the start of the file.
SeekSkipped(pos) == 0

\* f.seek(position): the stream position after it.
SeekTo(pos) == pos

\* A write of the new offset to every entry of the map.
set_positionAll(st, p, n) == [q \in Paths |-> n]

set_position(st, p, n) == [st EXCEPT ![p] = n]

\* A commit that is never made.
AdvancedNever(new, pos) == FALSE

\* A commit that is made whether or not the stream position moved.
AdvancedAlways(new, pos) == TRUE

\* "if new_position > position" of _process_file
Advanced(new, pos) == new > pos

\* An offset taken after the line was read.
LineOffsetAfter(pos, raw) == pos + Len(raw)

\* "line_offset = f.tell()", taken before f.readline() returns raw.
LineOffset(pos, raw) == pos

\* The end-of-file test made after the trimming: a blank line ends the loop.
LoopDoneOnBlank(line) == strip(line) = <<>>

\* "if not line: break": readline returned the empty string.
LoopDone(line) == line = <<>>

(***************************************************************************)
(* The storage sink: insert-or-ignore on (origin_host, file_path,          *)
(* byte_offset).  on_line calls DatabaseClient.insert_raw_line, which the  *)
(* client's source does not hold; the insert follows the sink contract of  *)
(* the specification: true for a new key, false for a stored one, and a    *)
(* storage failure is raised to the caller.                                *)
(***************************************************************************)
\* A call that passes the offset the pass started from for every line.
RowAtStart(h, p, off, payload) ==
    [host |-> h, path |-> p, offset |-> 0, payload |-> payload]

Row(h, p, off, payload) ==
    [host |-> h, path |-> p, offset |-> off, payload |-> payload]

HasKey(snk, h, p, off) ==
    \E r \in snk : r.host = h /\ r.path = p /\ r.offset = off

\* The rows after insert_raw_line returned: a duplicate key is ignored.
insert_raw_line(snk, h, p, off, payload) ==
    IF HasKey(snk, h, p, off) THEN snk ELSE snk \cup {Row(h, p, off, payload)}

\* Its return value.
Inserted(snk, h, p, off) == ~HasKey(snk, h, p, off)

(***************************************************************************)
(* Initial state: a freshly started collector, no snapshot, empty files.   *)
(* The second pass context is the callback of the observer thread          *)
(* (SpecThreads) or the pass of a second coordinator process (SpecRace);   *)
(* in the other specifications it stays as it starts.                      *)
(***************************************************************************)
\* The variables outside the pass contexts.
\* No hostname file.
NoMarker == [exists |-> FALSE, text |-> <<>>]

\* Python's None, and a dict without keys.
None == [null |-> TRUE]

EmptyDict == [k \in {} |-> k]

reviewVars == <<pr, events, times>>

syncVars == <<config, github, spc, all_stats, sr, gen, requests, failures>>

sharedVars == <<db_conn, opened, discarded, upc, ucur, qpc, qcur>>

dashVars == <<reviewVars, syncVars, sharedVars>>

ZeroTotals ==
    [total_synced |-> 0, total_skipped |-> 0, total_errors |-> 0,
     total_api_calls |-> 0, repos |-> EmptyDict]

NoFrame == [repo |-> 0]

\* The sync job has not been set up.
NoSync ==
    /\ config = [github_token |-> FALSE, github_repos |-> <<>>]
    /\ github = EmptyDict
    /\ spc = "off"
    /\ all_stats = ZeroTotals
    /\ sr = NoFrame
    /\ gen = NoFrame
    /\ requests = <<>>
    /\ failures = 0

\* The dashboard has not connected to its database.
NoShared ==
    /\ db_conn = 0
    /\ opened = 0
    /\ discarded = {}
    /\ upc = "off"
    /\ ucur = 0
    /\ qpc = "off"
    /\ qcur = 0

\* No pull request fetched, neither function applied.
NoDash ==
    /\ pr = None
    /\ events = [returned |-> FALSE, list |-> <<>>]
    /\ times = [returned |-> FALSE, first_review_at |-> None,
                approved_at |-> None]
    /\ NoSync
    /\ NoShared

auxVars == <<reported, backend, conn, degraded, reconn, root, env, marker,
             collector_host, dashVars>>

NoHostVars ==
    /\ env = <<>>
    /\ marker = NoMarker
    /\ collector_host = <<>>

NotReported == [inserted |-> -1, skipped |-> -1, errors |-> -1]

NoAux ==
    /\ reported = NotReported
    /\ backend = "up"
    /\ conn = "live"
    /\ degraded = FALSE
    /\ reconn = "no"
    /\ root = TRUE
    /\ NoHostVars
    /\ NoDash

ctx2Vars == <<obs, queue, pc2, cur2, position2, fpos2, state2, stats2, behind,
              peerAlone, auxVars>>

NoSecond ==
    /\ obs = "off"
    /\ queue = <<>>
    /\ pc2 = "idle"
    /\ cur2 = NoPath
    /\ position2 = 0
    /\ fpos2 = 0
    /\ state2 = ZeroMap
    /\ stats2 = ZeroStats
    /\ behind = [p \in Paths |-> -1]
    /\ peerAlone = {}
    /\ NoAux

Init ==
    /\ files = [p \in Paths |-> <<>>]
    /\ pending = [p \in Paths |-> <<>>]
    /\ disk = Snapshot(ZeroMap)
    /\ pc = "idle"
    /\ state = ZeroMap
    /\ sweep = Paths
    /\ cur = NoPath
    /\ position = 0
    /\ fpos = 0
    /\ sink = {}
    /\ stats = ZeroStats
    /\ calls = ZeroCalls
    /\ offered = {}
    /\ clean = TRUE
    /\ startLen = 0
    /\ fresh = TRUE
    /\ ioerr = {}
    /\ full0 = ZeroMap
    /\ everFailed = FALSE
    /\ cut = FALSE
    /\ NoSecond

passVars == <<cur, position, fpos, offered, clean, startLen, fresh>>

NoPass ==
    /\ cur' = NoPath
    /\ position' = 0
    /\ fpos' = 0
    /\ offered' = {}
    /\ clean' = TRUE
    /\ startLen' = 0
    /\ fresh' = TRUE

(***************************************************************************)
(* The writer of the watched files (the external agent).                   *)
(***************************************************************************)
RECURSIVE TotalLen(_, _)
TotalLen(fs, ps) ==
    IF ps = {} THEN 0
    ELSE LET p == CHOOSE q \in ps : TRUE
         IN  Len(fs[p]) + TotalLen(fs, ps \ {p})

Room(l) == TotalLen(files, Paths) + TotalLen(pending, Paths) + Len(l) <= MaxBytes

\* One write that holds a whole line, terminator included.
AppendLine(p, l) ==
    /\ pending[p] = <<>>
    /\ Room(l)
    /\ files' = [files EXCEPT ![p] = @ \o l]
    /\ UNCHANGED <<pending, disk, pc, state, sweep, sink, stats, calls, ioerr,
                   full0, everFailed, cut, passVars>>
    /\ UNCHANGED ctx2Vars

\* The first write of a line that takes two writes.
AppendPartial(p, l, k) ==
    /\ pending[p] = <<>>
    /\ Room(l)
    /\ files' = [files EXCEPT ![p] = @ \o SubSeq(l, 1, k)]
    /\ pending' = [pending EXCEPT ![p] = SubSeq(l, k + 1, Len(l))]
    /\ UNCHANGED <<disk, pc, state, sweep, sink, stats, calls, ioerr, full0,
                   everFailed, cut, passVars>>
    /\ UNCHANGED ctx2Vars

\* The write that completes it.
AppendRest(p) ==
    /\ pending[p] # <<>>
    /\ files' = [files EXCEPT ![p] = @ \o pending[p]]
    /\ pending' = [pending EXCEPT ![p] = <<>>]
    /\ UNCHANGED <<disk, pc, state, sweep, sink, stats, calls, ioerr, full0,
                   everFailed, cut, passVars>>
    /\ UNCHANGED ctx2Vars

(***************************************************************************)
(* LogFileHandler._process_file, one step per loop iteration.              *)
(***************************************************************************)
\* The files a pass may be run on now: the sweep runs first, one pass per
\* file; after it, any creation or modification event triggers a pass.
Triggerable == IF sweep # {} THEN sweep ELSE Paths

\* get_position, open, seek.
StartPass(p) ==
    /\ pc = "idle"
    /\ p \in Triggerable
    /\ pc' = "reading"
    /\ sweep' = sweep \ {p}
    /\ cur' = p
    /\ position' = get_position(state, p)
    /\ fpos' = SeekTo(get_position(state, p))
    /\ offered' = {}
    /\ clean' = TRUE
    /\ startLen' = Len(files[p])
    /\ fresh' = ~\E r \in sink : r.path = p /\ r.offset >= get_position(state, p)
    /\ ioerr' = ioerr \ {p}
    /\ UNCHANGED <<files, pending, disk, state, sink, stats, calls, full0,
                   everFailed, cut>>
    /\ UNCHANGED ctx2Vars

\* The IOError is not caught: it ends the sweep and the process.
OpenFailUncaught(p) ==
    /\ pc = "idle"
    /\ p \in Triggerable
    /\ pc' = "down"
    /\ sweep' = {}
    /\ ioerr' = ioerr \cup {p}
    /\ UNCHANGED <<files, pending, disk, state, sink, stats, calls, full0,
                   everFailed, cut, passVars>>
    /\ UNCHANGED ctx2Vars

\* open() raises IOError: caught at the end of _process_file.
OpenFail(p) ==
    /\ pc = "idle"
    /\ p \in Triggerable
    /\ sweep' = sweep \ {p}
    /\ ioerr' = ioerr \cup {p}
    /\ UNCHANGED <<files, pending, disk, pc, state, sink, stats, calls, full0,
                   everFailed, cut, passVars>>
    /\ UNCHANGED ctx2Vars

\* A callback that counts every returned call as inserted.
on_lineCountsInserted(p, off, payload, raised) ==
    IF raised
    THEN /\ stats' = [stats EXCEPT !.errors = @ + 1]
         /\ calls' = [calls EXCEPT !.raised = @ + 1]
         /\ sink' = sink
         /\ clean' = FALSE
         /\ everFailed' = TRUE
    ELSE /\ sink' = insert_raw_line(sink, Host, p, off, payload)
         /\ stats' = [stats EXCEPT !.inserted = @ + 1]
         /\ IF Inserted(sink, Host, p, off)
            THEN calls' = [calls EXCEPT !.inserted = @ + 1]
            ELSE calls' = [calls EXCEPT !.duplicate = @ + 1]
         /\ UNCHANGED <<clean, everFailed>>

\* A callback that takes a failed sink call for a duplicate.
on_lineFailureSkipped(p, off, payload, raised) ==
    IF raised
    THEN /\ stats' = [stats EXCEPT !.skipped = @ + 1]
         /\ calls' = [calls EXCEPT !.raised = @ + 1]
         /\ sink' = sink
         /\ clean' = FALSE
         /\ everFailed' = TRUE
    ELSE /\ sink' = insert_raw_line(sink, Host, p, off, payload)
         /\ IF Inserted(sink, Host, p, off)
            THEN /\ stats' = [stats EXCEPT !.inserted = @ + 1]
                 /\ calls' = [calls EXCEPT !.inserted = @ + 1]
            ELSE /\ stats' = [stats EXCEPT !.skipped = @ + 1]
                 /\ calls' = [calls EXCEPT !.duplicate = @ + 1]
         /\ UNCHANGED <<clean, everFailed>>

\* A callback that does not count a duplicate.
on_lineDuplicateUncounted(p, off, payload, raised) ==
    IF raised
    THEN /\ stats' = [stats EXCEPT !.errors = @ + 1]
         /\ calls' = [calls EXCEPT !.raised = @ + 1]
         /\ sink' = sink
         /\ clean' = FALSE
         /\ everFailed' = TRUE
    ELSE /\ sink' = insert_raw_line(sink, Host, p, off, payload)
         /\ IF Inserted(sink, Host, p, off)
            THEN /\ stats' = [stats EXCEPT !.inserted = @ + 1]
                 /\ calls' = [calls EXCEPT !.inserted = @ + 1]
            ELSE /\ stats' = stats
                 /\ calls' = [calls EXCEPT !.duplicate = @ + 1]
         /\ UNCHANGED <<clean, everFailed>>

\* on_line of main.py: the sink call either raises (raised = TRUE), which
\* is counted as an error, or returns whether the row was new.
on_line(p, off, payload, raised) ==
    IF raised
    THEN /\ stats' = [stats EXCEPT !.errors = @ + 1]
         /\ calls' = [calls EXCEPT !.raised = @ + 1]
         /\ sink' = sink
         /\ clean' = FALSE
         /\ everFailed' = TRUE
    ELSE /\ sink' = insert_raw_line(sink, Host, p, off, payload)
         /\ IF Inserted(sink, Host, p, off)
            THEN /\ stats' = [stats EXCEPT !.inserted = @ + 1]
                 /\ calls' = [calls EXCEPT !.inserted = @ + 1]
            ELSE /\ stats' = [stats EXCEPT !.skipped = @ + 1]
                 /\ calls' = [calls EXCEPT !.duplicate = @ + 1]
         /\ UNCHANGED <<clean, everFailed>>

\* One iteration of the while loop that reads a line.
ReadLine ==
    /\ pc = "reading"
    /\ ~LoopDone(readline(files[cur], fpos))
    /\ LET raw == readline(files[cur], fpos)
           line_offset == LineOffset(fpos, raw)
           line == sanitize(strip(raw))
       IN  /\ fpos' = fpos + Len(raw)
           /\ IF strip(raw) # <<>> /\ IsJson(line)
              THEN /\ \E raised \in BOOLEAN :
                        on_line(cur, line_offset, loads(line), raised)
                   /\ offered' = offered \cup {line_offset}
              ELSE UNCHANGED <<sink, stats, calls, clean, everFailed, offered>>
    /\ UNCHANGED <<files, pending, disk, pc, state, sweep, cur, position,
                   startLen, fresh, ioerr, full0, cut>>
    /\ UNCHANGED ctx2Vars

\* readline returned "": leave the loop, and commit the offset if it moved.
\* set_position updates the map and _save reopens the snapshot for writing,
\* which empties it until the dump is written.
EndPass ==
    /\ pc = "reading"
    /\ LoopDone(readline(files[cur], fpos))
    /\ IF Advanced(fpos, position)
       THEN /\ state' = set_position(state, cur, fpos)
            /\ disk' = Corrupt
            /\ pc' = "saving"
       ELSE /\ pc' = "idle"
            /\ UNCHANGED <<state, disk>>
    /\ full0' = IF clean /\ position = 0 THEN [full0 EXCEPT ![cur] = fpos]
                ELSE full0
    /\ NoPass
    /\ UNCHANGED <<files, pending, sweep, sink, stats, calls, ioerr,
                   everFailed, cut>>
    /\ UNCHANGED ctx2Vars

\* json.dump and close of _save: the snapshot holds the whole map.
SaveDone ==
    /\ pc = "saving"
    /\ disk' = Snapshot(state)
    /\ pc' = "idle"
    /\ UNCHANGED <<files, pending, state, sweep, sink, stats, calls, ioerr,
                   full0, everFailed, cut, passVars>>
    /\ UNCHANGED ctx2Vars

(***************************************************************************)
(* Process lifetime.                                                       *)
(***************************************************************************)
\* The process dies: everything in memory is gone, files and sink stay.
Crash ==
    /\ pc # "down"
    /\ pc' = "down"
    /\ state' = ZeroMap
    /\ sweep' = {}
    /\ stats' = ZeroStats
    /\ calls' = ZeroCalls
    /\ ioerr' = {}
    /\ cut' = (cut \/ (pc = "reading" /\ offered # {}))
    /\ NoPass
    /\ UNCHANGED <<files, pending, disk, sink, full0, everFailed>>
    /\ UNCHANGED ctx2Vars

\* main(): load the snapshot, zero the counters, sweep the existing files.
Restart ==
    /\ pc = "down"
    /\ pc' = "idle"
    /\ state' = Load(disk)
    /\ sweep' = Paths
    /\ UNCHANGED <<files, pending, disk, sink, stats, calls, ioerr, full0,
                   everFailed, cut, passVars>>
    /\ UNCHANGED ctx2Vars

(***************************************************************************)
(* Specifications.  Spec: the writer appends whole lines.  SpecChunked:    *)
(* the writer may also complete a line with a second write.                *)
(***************************************************************************)
Collector ==
    \/ \E p \in Paths : StartPass(p)
    \/ \E p \in Paths : OpenFail(p)
    \/ ReadLine
    \/ EndPass
    \/ SaveDone
    \/ Crash
    \/ Restart

Next ==
    \/ \E p \in Paths, l \in LineSet : AppendLine(p, l)
    \/ Collector

Spec == Init /\ [][Next]_vars

NextChunked ==
    \/ \E p \in Paths, l \in LineSet : AppendLine(p, l)
    \/ \E p \in Paths, l \in LineSet :
          \E k \in 1..(Len(l) - 1) : AppendPartial(p, l, k)
    \/ \E p \in Paths : AppendRest(p)
    \/ Collector

SpecChunked == Init /\ [][NextChunked]_vars

\* The file is truncated between two passes (or rewritten from its start:
\* the new content arrives with later appends).
Truncate(p) ==
    /\ pc = "idle"
    /\ files[p] # <<>>
    /\ files' = [files EXCEPT ![p] = <<>>]
    /\ pending' = [pending EXCEPT ![p] = <<>>]
    /\ UNCHANGED <<disk, pc, state, sweep, sink, stats, calls, ioerr, full0,
                   everFailed, cut, passVars>>
    /\ UNCHANGED ctx2Vars

\* SpecTrunc: whole-line appends, truncations and passes.
NextTrunc ==
    \/ \E p \in Paths, l \in LineSet : AppendLine(p, l)
    \/ \E p \in Paths : Truncate(p)
    \/ \E p \in Paths : StartPass(p)
    \/ ReadLine
    \/ EndPass
    \/ SaveDone

SpecTrunc == Init /\ [][NextTrunc]_vars

(***************************************************************************)
(* Startup over any snapshot file.  SpecStartup: the process is started    *)
(* with the snapshot file missing, undecodable, decodable but not an       *)
(* object, or an empty object, and then runs as in Spec.                   *)
(***************************************************************************)
StartupDisks == {Missing, Corrupt, NotADict, Snapshot(ZeroMap)}

InitStartup ==
    /\ files = [p \in Paths |-> <<>>]
    /\ pending = [p \in Paths |-> <<>>]
    /\ disk \in StartupDisks
    /\ pc = "down"
    /\ state = ZeroMap
    /\ sweep = {}
    /\ cur = NoPath
    /\ position = 0
    /\ fpos = 0
    /\ sink = {}
    /\ stats = ZeroStats
    /\ calls = ZeroCalls
    /\ offered = {}
    /\ clean = TRUE
    /\ startLen = 0
    /\ fresh = TRUE
    /\ ioerr = {}
    /\ full0 = ZeroMap
    /\ everFailed = FALSE
    /\ cut = FALSE
    /\ NoSecond

\* self._state.get(...) on a value that is not a dict raises AttributeError,
\* which _process_file does not catch: it leaves the sweep and main().
get_positionRaises(p) ==
    /\ pc = "idle"
    /\ p \in Triggerable
    /\ ~IsDict(state)
    /\ pc' = "down"
    /\ state' = ZeroMap
    /\ sweep' = {}
    /\ stats' = ZeroStats
    /\ calls' = ZeroCalls
    /\ ioerr' = {}
    /\ UNCHANGED <<files, pending, disk, sink, full0, everFailed, cut,
                   passVars>>
    /\ UNCHANGED ctx2Vars

NextStartup ==
    \/ \E p \in Paths, l \in LineSet : AppendLine(p, l)
    \/ \E p \in Paths : IsDict(state) /\ StartPass(p)
    \/ \E p \in Paths : IsDict(state) /\ OpenFail(p)
    \/ \E p \in Paths : get_positionRaises(p)
    \/ ReadLine
    \/ EndPass
    \/ SaveDone
    \/ Crash
    \/ Restart

SpecStartup == InitStartup /\ [][NextStartup]_vars

(***************************************************************************)
(* The live watch as a thread of its own.  SpecThreads: main() runs the    *)
(* sweep, then starts the observer thread (run_forever -> start) and       *)
(* sleeps; the observer thread takes the events of the watch one at a      *)
(* time and runs on_created / on_modified, which run _process_file on the  *)
(* same StateManager, with the same on_line and the same counters.         *)
(***************************************************************************)
\* Events the watch can hold undelivered.
MaxEvents == 2

mainVars == <<files, pending, disk, pc, state, sweep, cur, position, fpos,
              sink, stats, calls, offered, clean, startLen, fresh, ioerr,
              full0, everFailed, cut>>

\* A watch that is started without waiting for the sweep.
SweepDoneEarly == TRUE

\* process_existing_files has returned: main() goes on to run_forever.
SweepDone == sweep = {} /\ pc = "idle"

\* A pass of process_existing_files.
SweepPass(p) == sweep # {} /\ StartPass(p)

\* LogWatcher.start: schedule the handler and start the observer thread.
start ==
    /\ obs = "off"
    /\ SweepDone
    /\ obs' = "on"
    /\ behind' = [p \in Paths |->
                     IF state[p] < Len(files[p]) THEN state[p] ELSE -1]
    /\ UNCHANGED <<mainVars, queue, pc2, cur2, position2, fpos2, state2,
                   stats2, peerAlone, auxVars>>

\* The watch reports a creation or modification of p: for a write, again
\* for the same write, or for none.  A write without it is a missed event.
Notify(p) ==
    /\ obs = "on"
    /\ Len(queue) < MaxEvents
    /\ queue' = Append(queue, p)
    /\ UNCHANGED <<mainVars, obs, pc2, cur2, position2, fpos2, state2, stats2,
                   behind, peerAlone, auxVars>>

\* on_created / on_modified for the next event: _process_file begins with
\* get_position, open and seek.
on_modified ==
    /\ obs = "on"
    /\ pc2 = "idle"
    /\ queue # <<>>
    /\ queue' = Tail(queue)
    /\ pc2' = "reading"
    /\ cur2' = Head(queue)
    /\ position2' = get_position(state, Head(queue))
    /\ fpos2' = SeekTo(get_position(state, Head(queue)))
    /\ clean' = TRUE
    /\ UNCHANGED <<files, pending, disk, pc, state, sweep, cur, position, fpos,
                   sink, stats, calls, offered, startLen, fresh, ioerr, full0,
                   everFailed, cut, obs, state2, stats2, behind, peerAlone, auxVars>>

\* The observer thread runs: a callback it has begun goes on to its end
\* after observer.stop(), which only ends the dispatch loop.
ObsAlive == obs \in {"on", "stopping"}

\* One iteration of the read loop in the observer thread.
ObsReadLine ==
    /\ ObsAlive
    /\ pc2 = "reading"
    /\ ~LoopDone(readline(files[cur2], fpos2))
    /\ LET raw == readline(files[cur2], fpos2)
           line_offset == LineOffset(fpos2, raw)
           line == sanitize(strip(raw))
       IN  /\ fpos2' = fpos2 + Len(raw)
           /\ IF strip(raw) # <<>> /\ IsJson(line)
              THEN \E raised \in BOOLEAN :
                      on_line(cur2, line_offset, loads(line), raised)
              ELSE UNCHANGED <<sink, stats, calls, clean, everFailed>>
    /\ UNCHANGED <<files, pending, disk, pc, state, sweep, cur, position, fpos,
                   offered, startLen, fresh, ioerr, full0, cut, obs, queue,
                   pc2, cur2, position2, state2, stats2, behind, peerAlone, auxVars>>

\* The end of the loop in the observer thread, and the commit.
ObsEndPass ==
    /\ ObsAlive
    /\ pc2 = "reading"
    /\ LoopDone(readline(files[cur2], fpos2))
    /\ IF Advanced(fpos2, position2)
       THEN /\ state' = set_position(state, cur2, fpos2)
            /\ disk' = Corrupt
            /\ pc2' = "saving"
       ELSE /\ pc2' = "idle"
            /\ UNCHANGED <<state, disk>>
    /\ cur2' = NoPath
    /\ position2' = 0
    /\ fpos2' = 0
    /\ UNCHANGED <<files, pending, pc, sweep, cur, position, fpos, sink, stats,
                   calls, offered, clean, startLen, fresh, ioerr, full0,
                   everFailed, cut, obs, queue, state2, stats2, behind, peerAlone, auxVars>>

\* The dump of _save in the observer thread.
ObsSaveDone ==
    /\ ObsAlive
    /\ pc2 = "saving"
    /\ disk' = Snapshot(state)
    /\ pc2' = "idle"
    /\ UNCHANGED <<files, pending, pc, state, sweep, cur, position, fpos, sink,
                   stats, calls, offered, clean, startLen, fresh, ioerr, full0,
                   everFailed, cut, obs, queue, cur2, position2, fpos2, state2,
                   stats2, behind, peerAlone, auxVars>>

NextThreads ==
    \/ \E p \in Paths, l \in LineSet : AppendLine(p, l)
    \/ \E p \in Paths : SweepPass(p)
    \/ ReadLine
    \/ EndPass
    \/ SaveDone
    \/ start
    \/ \E p \in Paths : Notify(p)
    \/ on_modified
    \/ ObsReadLine
    \/ ObsEndPass
    \/ ObsSaveDone

SpecThreads == Init /\ [][NextThreads]_vars

(***************************************************************************)
(* The termination signal.  SpecStop: SpecThreads with SIGINT / SIGTERM.    *)
(* The handler runs in the main thread between two of its bytecodes, logs   *)
(* the counters and raises SystemExit there.  During the sweep the main     *)
(* thread is in process_existing_files and nothing on its way catches       *)
(* SystemExit; during the live watch it is in the sleep of run_forever,     *)
(* whose finally clause stops and joins the observer thread.                *)
(***************************************************************************)
\* signal_handler while main() is still in the sweep: the pass in flight is
\* left where it stands, and so is a snapshot file that _save has opened
\* for writing and not yet dumped.
signal_handlerSweep ==
    /\ obs = "off"
    /\ pc \in {"idle", "reading", "saving"}
    /\ reported' = stats
    /\ pc' = "exited"
    /\ sweep' = {}
    /\ NoPass
    /\ UNCHANGED <<files, pending, disk, state, sink, stats, calls, ioerr,
                   full0, everFailed, cut, obs, queue, pc2, cur2, position2,
                   fpos2, state2, stats2, behind, peerAlone, backend, conn,
                   degraded, reconn, root, env, marker,
                   collector_host, dashVars>>

\* signal_handler while main() sleeps in run_forever: the counters are
\* logged, and the finally clause calls observer.stop().
signal_handlerWatch ==
    /\ obs = "on"
    /\ pc = "idle"
    /\ reported' = stats
    /\ pc' = "stopping"
    /\ obs' = "stopping"
    /\ UNCHANGED <<files, pending, disk, state, sweep, sink, stats, calls,
                   ioerr, full0, everFailed, cut, passVars, queue, pc2, cur2,
                   position2, fpos2, state2, stats2, behind, peerAlone,
                   backend, conn, degraded, reconn, root, env, marker,
                   collector_host, dashVars>>

\* observer.join() returns once the observer thread has left its callback;
\* SystemExit then ends main().
stop ==
    /\ obs = "stopping"
    /\ pc2 = "idle"
    /\ obs' = "closed"
    /\ pc' = "exited"
    /\ queue' = <<>>
    /\ UNCHANGED <<files, pending, disk, state, sweep, sink, stats, calls,
                   ioerr, full0, everFailed, cut, passVars, pc2, cur2,
                   position2, fpos2, state2, stats2, behind, peerAlone,
                   auxVars>>

NextStop ==
    \/ \E p \in Paths, l \in LineSet : AppendLine(p, l)
    \/ \E p \in Paths : SweepPass(p)
    \/ ReadLine
    \/ EndPass
    \/ SaveDone
    \/ start
    \/ \E p \in Paths : Notify(p)
    \/ on_modified
    \/ ObsReadLine
    \/ ObsEndPass
    \/ ObsSaveDone
    \/ signal_handlerSweep
    \/ signal_handlerWatch
    \/ stop

SpecStop == Init /\ [][NextStop]_vars

(***************************************************************************)
(* Two coordinators on one host.  SpecRace: a second collector process     *)
(* with the same host identifier watches the same files and rewrites the   *)
(* same snapshot file; it has its own StateManager and its own counters,   *)
(* and it may die and be started again.  The first coordinator also        *)
(* watches a file the second does not.                                     *)
(***************************************************************************)
\* The .jsonl files under the second coordinator's projects path: the two
\* coordinators have this file in common.
Paths2 == {"a.jsonl"}

\* get_position, open, seek in the second coordinator.
StartPass2(p) ==
    /\ pc2 = "idle"
    /\ p \in Paths2
    /\ pc2' = "reading"
    /\ cur2' = p
    /\ position2' = get_position(state2, p)
    /\ fpos2' = SeekTo(get_position(state2, p))
    /\ UNCHANGED <<mainVars, obs, queue, state2, stats2, behind, peerAlone, auxVars>>

\* on_line of the second coordinator: its own stats, the same sink.
on_line2(p, off, payload, raised) ==
    IF raised
    THEN /\ stats2' = [stats2 EXCEPT !.errors = @ + 1]
         /\ sink' = sink
         /\ everFailed' = TRUE
    ELSE /\ sink' = insert_raw_line(sink, Host, p, off, payload)
         /\ IF Inserted(sink, Host, p, off)
            THEN stats2' = [stats2 EXCEPT !.inserted = @ + 1]
            ELSE stats2' = [stats2 EXCEPT !.skipped = @ + 1]
         /\ UNCHANGED everFailed

ReadLine2 ==
    /\ obs = "off"
    /\ pc2 = "reading"
    /\ ~LoopDone(readline(files[cur2], fpos2))
    /\ LET raw == readline(files[cur2], fpos2)
           line_offset == LineOffset(fpos2, raw)
           line == sanitize(strip(raw))
       IN  /\ fpos2' = fpos2 + Len(raw)
           /\ IF strip(raw) # <<>> /\ IsJson(line)
              THEN \E raised \in BOOLEAN :
                      on_line2(cur2, line_offset, loads(line), raised)
              ELSE UNCHANGED <<sink, stats2, everFailed>>
    /\ UNCHANGED <<files, pending, disk, pc, state, sweep, cur, position, fpos,
                   stats, calls, offered, clean, startLen, fresh, ioerr, full0,
                   cut, obs, queue, pc2, cur2, position2, state2, behind, peerAlone, auxVars>>

EndPass2 ==
    /\ obs = "off"
    /\ pc2 = "reading"
    /\ LoopDone(readline(files[cur2], fpos2))
    /\ IF Advanced(fpos2, position2)
       THEN /\ state2' = set_position(state2, cur2, fpos2)
            /\ disk' = Corrupt
            /\ pc2' = "saving"
       ELSE /\ pc2' = "idle"
            /\ UNCHANGED <<state2, disk>>
    /\ cur2' = NoPath
    /\ position2' = 0
    /\ fpos2' = 0
    /\ UNCHANGED <<files, pending, pc, state, sweep, cur, position, fpos, sink,
                   stats, calls, offered, clean, startLen, fresh, ioerr, full0,
                   everFailed, cut, obs, queue, stats2, behind, peerAlone, auxVars>>

SaveDone2 ==
    /\ obs = "off"
    /\ pc2 = "saving"
    /\ disk' = Snapshot(state2)
    /\ pc2' = "idle"
    /\ UNCHANGED <<files, pending, pc, state, sweep, cur, position, fpos, sink,
                   stats, calls, offered, clean, startLen, fresh, ioerr, full0,
                   everFailed, cut, obs, queue, cur2, position2, fpos2, state2,
                   stats2, behind, peerAlone, auxVars>>

\* A dump over a file the other process has written since this one opened
\* it: when the other dump was the longer one its tail stays behind this
\* one, and the file does not decode.
SaveTorn ==
    /\ pc = "saving"
    /\ disk.valid
    /\ disk' = Corrupt
    /\ pc' = "idle"
    /\ UNCHANGED <<files, pending, state, sweep, sink, stats, calls, ioerr,
                   full0, everFailed, cut, passVars, ctx2Vars>>

SaveTorn2 ==
    /\ obs = "off"
    /\ pc2 = "saving"
    /\ disk.valid
    /\ disk' = Corrupt
    /\ pc2' = "idle"
    /\ UNCHANGED <<files, pending, pc, state, sweep, cur, position, fpos, sink,
                   stats, calls, offered, clean, startLen, fresh, ioerr, full0,
                   everFailed, cut, obs, queue, cur2, position2, fpos2, state2,
                   stats2, behind, peerAlone, auxVars>>

\* The second coordinator dies.
Crash2 ==
    /\ obs = "off"
    /\ pc2 \in {"idle", "reading", "saving"}
    /\ pc2' = "down"
    /\ state2' = ZeroMap
    /\ stats2' = ZeroStats
    /\ cur2' = NoPath
    /\ position2' = 0
    /\ fpos2' = 0
    /\ UNCHANGED <<mainVars, obs, queue, behind, peerAlone, auxVars>>

\* It is started again: its StateManager loads the snapshot file.
Restart2 ==
    /\ pc2 = "down"
    /\ pc2' = "idle"
    /\ state2' = Load(disk)
    /\ UNCHANGED <<mainVars, obs, queue, cur2, position2, fpos2, stats2,
                   behind, peerAlone, auxVars>>

NextRace ==
    \/ \E p \in Paths, l \in LineSet : AppendLine(p, l)
    \/ \E p \in Paths : StartPass(p)
    \/ ReadLine
    \/ EndPass
    \/ SaveDone
    \/ SaveTorn
    \/ \E p \in Paths2 : StartPass2(p)
    \/ ReadLine2
    \/ EndPass2
    \/ SaveDone2
    \/ SaveTorn2
    \/ Crash2
    \/ Restart2

SpecRace == Init /\ [][NextRace]_vars

(***************************************************************************)
(* Collectors of two hosts on one backend.  SpecHosts: next to the         *)
(* collector a peer collector runs on another machine, with its own files  *)
(* and its own Progress Store; all the collector can see of it are the     *)
(* rows its on_line calls insert, under its own host identifier, for any   *)
(* path, offset and payload.                                               *)
(***************************************************************************)
PeerOffsets == {0}

PeerPayloads == { <<"[", "]">>, <<"[", "1", "]">> }

\* on_line of the peer: insert_raw_line(config.collector_host, ...).
PeerOnLine(p, off, payload) ==
    /\ sink' = insert_raw_line(sink, PeerHost, p, off, payload)
    /\ peerAlone' = insert_raw_line(peerAlone, PeerHost, p, off, payload)
    /\ UNCHANGED <<files, pending, disk, pc, state, sweep, stats, calls, ioerr,
                   full0, everFailed, cut, passVars, obs, queue, pc2, cur2,
                   position2, fpos2, state2, stats2, behind, auxVars>>

NextHosts ==
    \/ \E p \in Paths, l \in LineSet : AppendLine(p, l)
    \/ \E p \in Paths : StartPass(p)
    \/ ReadLine
    \/ EndPass
    \/ SaveDone
    \/ \E p \in Paths, off \in PeerOffsets, payload \in PeerPayloads :
          PeerOnLine(p, off, payload)

SpecHosts == Init /\ [][NextHosts]_vars

(***************************************************************************)
(* The storage connection.  SpecConn: the backend goes down and comes up   *)
(* again; DatabaseClient._conn is none, live, or stale (an object whose    *)
(* server side is gone, which only the next statement finds out).  main()  *)
(* boots with the backend up or down, and the insert of on_line follows    *)
(* the client's pattern: ensure_connected, execute, and on a storage error *)
(* discard the connection.  The callbacks of the live watch are passes in  *)
(* the one pass context, as the passes of a process never overlap.         *)
(***************************************************************************)
\* psycopg2.connect: the connection object, or none when it raises.
connect(b) == IF b = "up" THEN "live" ELSE "none"

\* A client that never connects again.
NeedsConnectNever(c) == FALSE

\* "if self._conn is None or self._conn.closed"
NeedsConnect(c) == c = "none"

ensure_connected(c, b) == IF NeedsConnect(c) THEN connect(b) ELSE c

\* An error path that keeps the connection object.
DiscardKept(c) == c

\* "self._conn = None" after a storage error of the statement.
Discard(c) == "none"

\* The statement runs on the connection and succeeds.
Executes(c) == c = "live"

\* _conn when the insert has returned or raised.
ConnAfterInsert(c, b) ==
    LET c1 == ensure_connected(c, b)
    IN  IF c1 = "none" \/ Executes(c1) THEN c1 ELSE Discard(c1)

\* The insert raises: connect() failed, or the statement did.
InsertRaises(c, b) == ~Executes(ensure_connected(c, b))

InitConn ==
    /\ files = [p \in Paths |-> <<>>]
    /\ pending = [p \in Paths |-> <<>>]
    /\ disk = Missing
    /\ pc = "down"
    /\ state = ZeroMap
    /\ sweep = {}
    /\ cur = NoPath
    /\ position = 0
    /\ fpos = 0
    /\ sink = {}
    /\ stats = ZeroStats
    /\ calls = ZeroCalls
    /\ offered = {}
    /\ clean = TRUE
    /\ startLen = 0
    /\ fresh = TRUE
    /\ ioerr = {}
    /\ full0 = ZeroMap
    /\ everFailed = FALSE
    /\ cut = FALSE
    /\ obs = "off"
    /\ queue = <<>>
    /\ pc2 = "idle"
    /\ cur2 = NoPath
    /\ position2 = 0
    /\ fpos2 = 0
    /\ state2 = ZeroMap
    /\ stats2 = ZeroStats
    /\ behind = [p \in Paths |-> -1]
    /\ peerAlone = {}
    /\ reported = NotReported
    /\ backend \in {"up", "down"}
    /\ conn = "none"
    /\ degraded = FALSE
    /\ reconn = "no"
    /\ root = TRUE
    /\ NoHostVars
    /\ NoDash

connVars == <<files, pending, disk, sink, stats, calls, ioerr, full0,
              everFailed, cut, passVars, obs, queue, pc2, cur2, position2,
              fpos2, state2, stats2, behind, peerAlone, reported, root, env, marker,
                   collector_host, dashVars>>

\* A boot that gives up when the database cannot be initialised.
BootFatal(schemaOK) ==
    /\ pc = "down"
    /\ conn' = connect(backend)
    /\ degraded' = (backend = "down" \/ ~schemaOK)
    /\ IF backend = "down" \/ ~schemaOK
       THEN UNCHANGED <<pc, state, sweep>>
       ELSE /\ pc' = "idle"
            /\ state' = Load(disk)
            /\ sweep' = Paths
    /\ UNCHANGED <<connVars, backend, reconn>>

\* main() up to the sweep: connect and init_schema inside try / except
\* Exception, then the counters and the watcher with its StateManager.
\* schemaOK: the schema statement succeeds on a connection that was made.
Boot(schemaOK) ==
    /\ pc = "down"
    /\ conn' = connect(backend)
    /\ degraded' = (backend = "down" \/ ~schemaOK)
    /\ pc' = "idle"
    /\ state' = Load(disk)
    /\ sweep' = Paths
    /\ UNCHANGED <<connVars, backend, reconn>>

\* A callback of the live watch begins a pass.
WatchPass(p) == obs = "on" /\ StartPass(p)

\* One iteration of the read loop, with the insert on the connection.
ReadLineConn ==
    /\ pc = "reading"
    /\ ~LoopDone(readline(files[cur], fpos))
    /\ LET raw == readline(files[cur], fpos)
           line_offset == LineOffset(fpos, raw)
           line == sanitize(strip(raw))
       IN  /\ fpos' = fpos + Len(raw)
           /\ IF strip(raw) # <<>> /\ IsJson(line)
              THEN /\ on_line(cur, line_offset, loads(line),
                              InsertRaises(conn, backend))
                   /\ offered' = offered \cup {line_offset}
                   /\ conn' = ConnAfterInsert(conn, backend)
                   /\ reconn' = IF ~NeedsConnect(conn) THEN "no"
                                ELSE IF connect(backend) = "none"
                                     THEN "refused" ELSE "connected"
              ELSE UNCHANGED <<sink, stats, calls, clean, everFailed, offered,
                               conn, reconn>>
    /\ UNCHANGED <<files, pending, disk, pc, state, sweep, cur, position,
                   startLen, fresh, ioerr, full0, cut, obs, queue, pc2, cur2,
                   position2, fpos2, state2, stats2, behind, peerAlone,
                   reported, backend, degraded, root, env, marker,
                   collector_host, dashVars>>

\* The backend becomes unreachable: a live connection goes stale.
BackendDown ==
    /\ backend = "up"
    /\ backend' = "down"
    /\ conn' = IF conn = "live" THEN "stale" ELSE conn
    /\ UNCHANGED <<connVars, pc, state, sweep, degraded, reconn>>

\* The backend is reachable again; a stale connection stays dead when the
\* server was restarted and works again when only the route was down.
BackendUp(revive) ==
    /\ backend = "down"
    /\ backend' = "up"
    /\ conn' = IF conn = "stale" /\ revive THEN "live" ELSE conn
    /\ UNCHANGED <<connVars, pc, state, sweep, degraded, reconn>>

NextConn ==
    \/ \E p \in Paths, l \in LineSet : AppendLine(p, l)
    \/ \E ok \in BOOLEAN : Boot(ok)
    \/ \E p \in Paths : SweepPass(p)
    \/ start
    \/ \E p \in Paths : WatchPass(p)
    \/ ReadLineConn
    \/ EndPass
    \/ SaveDone
    \/ BackendDown
    \/ \E revive \in BOOLEAN : BackendUp(revive)

SpecConn == InitConn /\ [][NextConn]_vars

(***************************************************************************)
(* Short lines.  SpecOffsets: the writer appends a number, an empty line   *)
(* or an empty array, so that a file of six bytes holds up to six lines;   *)
(* passes begin at offset 0 and at every offset a pass has committed.      *)
(***************************************************************************)
ShortLines == { <<"1", NL>>, <<NL>>, <<"[", "]", NL>> }

NextOffsets ==
    \/ \E p \in Paths, l \in ShortLines : AppendLine(p, l)
    \/ \E p \in Paths : StartPass(p)
    \/ \E p \in Paths : OpenFail(p)
    \/ ReadLine
    \/ EndPass
    \/ SaveDone

SpecOffsets == Init /\ [][NextOffsets]_vars

(***************************************************************************)
(* Lines with NUL.  SpecNul: the writer appends strings and arrays that    *)
(* hold NUL as the literal byte, as the escape, or as one inside the       *)
(* other.                                                                  *)
(***************************************************************************)
NulLines ==
    { <<QUOTE, QUOTE, NL>>,
      <<QUOTE, NulByte, QUOTE, NL>>,
      <<QUOTE, NulEscape[1], NulEscape[2], QUOTE, NL>>,
      <<"[", NulByte, "]", NL>>,
      <<NulEscape[1], NulEscape[2], "1", NL>>,
      <<QUOTE, NulEscape[1], NulByte, NulEscape[2], QUOTE, NL>>,
      <<QUOTE, NulEscape[1], NulEscape[1], NulEscape[2], NulEscape[2],
        QUOTE, NL>> }

NextNul ==
    \/ \E p \in Paths, l \in NulLines : AppendLine(p, l)
    \/ Collector

SpecNul == Init /\ [][NextNul]_vars

(***************************************************************************)
(* The watched tree.  SpecSweep: under the root there are, next to the two *)
(* log files, a directory whose name ends in .jsonl and a file whose name  *)
(* does not; the root may be missing when the collector starts.  The       *)
(* callbacks of the live watch are passes in the one pass context.         *)
(***************************************************************************)
Dirs == {"d.jsonl"}

Others == {"notes.txt"}

Entries == Paths \cup Dirs \cup Others

\* src_path.endswith(".jsonl"), and the pattern "*.jsonl" of rglob.
endswith_jsonl(e) == e \in Paths \cup {"d.jsonl"}

\* event.is_directory
is_directory(e) == e \in Dirs

\* claude_projects_path.rglob("*.jsonl"): every entry under the root whose
\* name matches, of whatever kind.
rglob(r) == IF r THEN {e \in Entries : endswith_jsonl(e)} ELSE {}

\* on_created / on_modified go on to _process_file.
Accepted(e) == ~is_directory(e) /\ endswith_jsonl(e)

InitSweep ==
    /\ files = [p \in Paths |-> <<>>]
    /\ pending = [p \in Paths |-> <<>>]
    /\ disk = Missing
    /\ pc = "down"
    /\ state = ZeroMap
    /\ sweep = {}
    /\ cur = NoPath
    /\ position = 0
    /\ fpos = 0
    /\ sink = {}
    /\ stats = ZeroStats
    /\ calls = ZeroCalls
    /\ offered = {}
    /\ clean = TRUE
    /\ startLen = 0
    /\ fresh = TRUE
    /\ ioerr = {}
    /\ full0 = ZeroMap
    /\ everFailed = FALSE
    /\ cut = FALSE
    /\ obs = "off"
    /\ queue = <<>>
    /\ pc2 = "idle"
    /\ cur2 = NoPath
    /\ position2 = 0
    /\ fpos2 = 0
    /\ state2 = ZeroMap
    /\ stats2 = ZeroStats
    /\ behind = [p \in Paths |-> -1]
    /\ peerAlone = {}
    /\ reported = NotReported
    /\ backend = "up"
    /\ conn = "live"
    /\ degraded = FALSE
    /\ reconn = "no"
    /\ root \in BOOLEAN
    /\ NoHostVars
    /\ NoDash

\* main() up to the loop of process_existing_files: the StateManager loads
\* the snapshot, and the sweep is to run over what rglob finds; without the
\* root it returns at once.
process_existing_files ==
    /\ pc = "down"
    /\ pc' = "idle"
    /\ state' = Load(disk)
    /\ sweep' = rglob(root)
    /\ UNCHANGED <<files, pending, disk, sink, stats, calls, ioerr, full0,
                   everFailed, cut, passVars, ctx2Vars>>

\* The sweep calls _process_file on a directory: open raises
\* IsADirectoryError, an IOError, which is caught and logged.
SweepDirectory(e) ==
    /\ pc = "idle"
    /\ e \in sweep
    /\ is_directory(e)
    /\ sweep' = sweep \ {e}
    /\ ioerr' = ioerr \cup {e}
    /\ UNCHANGED <<files, pending, disk, pc, state, sink, stats, calls, full0,
                   everFailed, cut, passVars, ctx2Vars>>

\* LogWatcher.start: a missing root is created, then the observer started.
startWatch ==
    /\ obs = "off"
    /\ SweepDone
    /\ obs' = "on"
    /\ root' = TRUE
    /\ UNCHANGED <<mainVars, queue, pc2, cur2, position2, fpos2, state2,
                   stats2, behind, peerAlone, reported, backend, conn,
                   degraded, reconn, env, marker, collector_host, dashVars>>

\* An event for an entry the handler lets pass.
EventPass(e) == obs = "on" /\ Accepted(e) /\ StartPass(e)

\* An event the handler returns from: a directory, or a name without the
\* suffix.
EventFiltered(e) ==
    /\ obs = "on"
    /\ pc = "idle"
    /\ ~Accepted(e)
    /\ UNCHANGED vars

NextSweep ==
    \/ \E p \in Paths, l \in LineSet : root /\ AppendLine(p, l)
    \/ process_existing_files
    \/ \E p \in Paths : SweepPass(p)
    \/ \E e \in Dirs : SweepDirectory(e)
    \/ ReadLine
    \/ EndPass
    \/ SaveDone
    \/ startWatch
    \/ \E e \in Entries : EventPass(e)
    \/ \E e \in Entries : EventFiltered(e)

SpecSweep == InitSweep /\ [][NextSweep]_vars

(***************************************************************************)
(* The host identifier.  SpecHostId: the collector is started again and    *)
(* again (Config.from_env), with COLLECTOR_HOST set, changed or unset      *)
(* between the starts, and with the hostname file absent, written by the   *)
(* installer, or written back by an earlier start.  Names are sequences of *)
(* characters, so that the write ("\n" appended) and the read (strip) are  *)
(* what the code does.                                                     *)
(***************************************************************************)
\* Values of COLLECTOR_HOST.
Overrides ==
    { <<"h1">>, <<"h2">>, <<"h", "3">>, <<" ", "h1">>, <<"h1", " ">> }

\* socket.gethostname()
Hostname == <<"vm">>

\* _get_collector_host: the value it returns.
get_collector_host(e, m) ==
    IF e # <<>> THEN e ELSE IF m.exists THEN strip(m.text) ELSE Hostname

\* The hostname file after _get_collector_host; writable: mkdir and
\* write_text raise no OSError.
write_back(e, m, writable) ==
    IF e # <<>> /\ ~m.exists /\ writable
    THEN [exists |-> TRUE, text |-> e \o <<NL>>]
    ELSE m

hostRest == <<mainVars, obs, queue, pc2, cur2, position2, fpos2, state2,
              stats2, behind, peerAlone, reported, backend, conn, degraded,
              reconn, root, dashVars>>

\* The operator sets, changes or unsets the override.
SetEnv(v) ==
    /\ v # env
    /\ env' = v
    /\ UNCHANGED <<hostRest, marker, collector_host>>

\* The installer writes the hostname file into the mounted volume.
InstallMarker(v) ==
    /\ ~marker.exists
    /\ marker' = [exists |-> TRUE, text |-> v \o <<NL>>]
    /\ UNCHANGED <<hostRest, env, collector_host>>

\* The volume is lost.
RemoveMarker ==
    /\ marker.exists
    /\ marker' = NoMarker
    /\ UNCHANGED <<hostRest, env, collector_host>>

\* Config.from_env: collector_host = _get_collector_host().
from_env(writable) ==
    /\ collector_host' = get_collector_host(env, marker)
    /\ marker' = write_back(env, marker, writable)
    /\ UNCHANGED <<hostRest, env>>

NextHostId ==
    \/ \E v \in Overrides \cup {<<>>} : SetEnv(v)
    \/ \E v \in Overrides : InstallMarker(v)
    \/ RemoveMarker
    \/ \E writable \in BOOLEAN : from_env(writable)

SpecHostId == Init /\ [][NextHostId]_vars

(***************************************************************************)
(* The dashboard: the reviews of a pull request row.  A string is the      *)
(* sequence of its characters; a login is the sequence of its words.  A    *)
(* dict is a function on its keys.                                         *)
(***************************************************************************)
MaxReviews == 2

\* dict.get(k, default)
get(d, k, default) == IF k \in DOMAIN d THEN d[k] ELSE default

\* One key of a dict, when the key is present.
Field(k, has, v) == IF has THEN k :> v ELSE EmptyDict

Logins == { <<"alice">>, <<"dependabot", "[bot]">>, <<"Claude">> }

Unknown == <<"unknown">>

BOT_PATTERNS ==
    { <<"[bot]">>, <<"github-actions">>, <<"dependabot">>, <<"renovate">>,
      <<"claude">>, <<"copilot">> }

\* str.lower()
lower(s) == [i \in 1..Len(s) |-> IF s[i] = "Claude" THEN "claude" ELSE s[i]]

\* pattern in s
In(p, s) == \E i \in 1..(Len(s) - Len(p) + 1) : SubSeq(s, i, i + Len(p) - 1) = p

is_bot_user(username) ==
    IF username = <<>> THEN FALSE
    ELSE LET username_lower == lower(username)
         IN  \E pattern \in BOT_PATTERNS : In(pattern, username_lower)

\* The digits in code point order.
Digits == <<"0", "1", "2", "3", "4", "5", "6", "7", "8", "9">>

DigitOf(c) == (CHOOSE i \in 1..Len(Digits) : Digits[i] = c) - 1

\* Timestamps as GitHub writes them, cut down to the hour: "09Z".
TimeTexts == { <<"0", "9", "Z">>, <<"1", "0", "Z">>, <<"1", "2", "Z">> }

\* a < b on strings of digits and "Z": by code point, "Z" after the digits.
RECURSIVE StrLess(_, _)
StrLess(a, b) ==
    LET Chars == Digits \o <<"Z">>
        Code(c) == CHOOSE i \in 1..Len(Chars) : Chars[i] = c
    IN  IF b = <<>> THEN FALSE
        ELSE IF a = <<>> THEN TRUE
        ELSE IF Head(a) = Head(b) THEN StrLess(Tail(a), Tail(b))
        ELSE Code(Head(a)) < Code(Head(b))

\* ts.replace("Z", "+00:00")
replaceZ(ts) == [i \in 1..Len(ts) |-> IF ts[i] = "Z" THEN "+00:00" ELSE ts[i]]

\* What datetime.fromisoformat accepts.
IsIso(t) ==
    /\ Len(t) \in {2, 3}
    /\ \A i \in 1..2 : \E d \in 1..Len(Digits) : Digits[d] = t[i]
    /\ 10 * DigitOf(t[1]) + DigitOf(t[2]) < 24
    /\ Len(t) = 3 => t[3] = "+00:00"

fromisoformat(t) ==
    [hour |-> 10 * DigitOf(t[1]) + DigitOf(t[2]), utc |-> Len(t) = 3]

\* <<>> stands for a missing or empty string: both are falsy.
parse_review_timestamp(ts) ==
    IF ts = <<>> THEN None
    ELSE LET t == replaceZ(ts)
         IN  IF IsIso(t) THEN fromisoformat(t) ELSE None

\* sync.py's parse_timestamp: the same without the except clause; the
\* timestamps the API sends are all accepted.
parse_timestamp(ts) ==
    IF ts = <<>> THEN None ELSE fromisoformat(replaceZ(ts))

\* sorted(seq, key): stable.  less holds the pairs <<i, j>> of indices with
\* the key of seq[i] below the key of seq[j].
sorted(seq, less) ==
    LET n == Len(seq)
        before(i) == {j \in 1..n : \/ <<j, i>> \in less
                                   \/ <<i, j>> \notin less /\ j < i}
    IN  [p \in 1..n |->
            seq[CHOOSE i \in 1..n : Cardinality(before(i)) + 1 = p]]

\* key=lambda r: r.get(k) or "", compared over the reviews of rs.
ByText(k, rs) ==
    {ij \in (1..Len(rs)) \X (1..Len(rs)) :
        StrLess(get(rs[ij[1]], k, <<>>), get(rs[ij[2]], k, <<>>))}

\* The loop of get_human_review_times over the sorted reviews.
RECURSIVE human_loop(_, _, _)
human_loop(rs, first_review_at, approved_at) ==
    IF Len(rs) = 0 THEN <<first_review_at, approved_at>>
    ELSE LET review == Head(rs)
             reviewer == get(get(review, "user", EmptyDict), "login", <<>>)
             submitted ==
                 parse_review_timestamp(get(review, "submitted_at", <<>>))
         IN  IF is_bot_user(reviewer) \/ submitted = None
             THEN human_loop(Tail(rs), first_review_at, approved_at)
             ELSE human_loop(Tail(rs),
                     IF first_review_at = None THEN submitted
                     ELSE first_review_at,
                     IF get(review, "state", "") = "APPROVED"
                        /\ approved_at = None
                     THEN submitted ELSE approved_at)

get_human_review_times(p) ==
    LET raw == get(p, "raw_data", None)
        raw_data == IF raw = None THEN EmptyDict ELSE raw
        reviews == get(raw_data, "reviews", <<>>)
        sorted_reviews == sorted(reviews, ByText("submitted_at", reviews))
    IN  human_loop(sorted_reviews, None, None)

extract_review_events(p) ==
    LET raw == get(p, "raw_data", None)
        raw_data == IF raw = None THEN EmptyDict ELSE raw
        reviews == get(raw_data, "reviews", <<>>)
        event(review) ==
            LET reviewer ==
                    get(get(review, "user", EmptyDict), "login", Unknown)
            IN  [reviewer |-> reviewer,
                 state |-> get(review, "state", "COMMENTED"),
                 body |-> get(review, "body", <<>>),
                 submitted_at |->
                     parse_review_timestamp(get(review, "submitted_at", <<>>)),
                 is_bot |-> is_bot_user(reviewer)]
        all == [i \in 1..Len(reviews) |-> event(reviews[i])]
        submitted(e) == e.submitted_at # None
        kept == SelectSeq(all, submitted)
        key == {ij \in (1..Len(kept)) \X (1..Len(kept)) :
                   kept[ij[1]].submitted_at.hour <
                       kept[ij[2]].submitted_at.hour}
    IN  sorted(kept, key)

\* The loop of transform_graphql_pr over the sorted review nodes.
RECURSIVE sync_loop(_, _, _)
sync_loop(rs, first_review_at, approved_at) ==
    IF Len(rs) = 0 THEN <<first_review_at, approved_at>>
    ELSE LET review == Head(rs)
             submitted == parse_timestamp(get(review, "submittedAt", <<>>))
         IN  IF submitted = None
             THEN sync_loop(Tail(rs), first_review_at, approved_at)
             ELSE sync_loop(Tail(rs),
                     IF first_review_at = None THEN submitted
                     ELSE first_review_at,
                     IF get(review, "state", "") = "APPROVED"
                        /\ approved_at = None
                     THEN submitted ELSE approved_at)

\* The review columns of the row the sync job writes.
transform_graphql_pr(reviews) ==
    LET t == sync_loop(sorted(reviews, ByText("submittedAt", reviews)),
                       None, None)
    IN  [first_review_at |-> t[1], approved_at |-> t[2],
         raw_data |-> [reviews |-> reviews]]

\* Reviews with the reviewer under the key who and the timestamp under the
\* key when, either of which may be missing: the nodes of the GraphQL query
\* are Reviews("author", "submittedAt"), what the REST API gives is
\* Reviews("user", "submitted_at").
Reviews(who, when) ==
    { [state |-> st] @@ Field(when, ts # <<>>, ts)
                     @@ Field(who, l # <<>>, [login |-> l]) :
        st \in {"APPROVED", "COMMENTED"}, ts \in TimeTexts \cup {<<>>},
        l \in Logins \cup {<<>>} }

\* The lists of at most MaxReviews reviews out of S.
Lists(S) == UNION { [1..n -> S] : n \in 0..MaxReviews }

\* Rows whose reviews are in the REST shape, and rows without reviews.
RestRows ==
    { [raw_data |-> [reviews |-> rs]] : rs \in Lists(Reviews("user", "submitted_at")) }
        \cup { EmptyDict, [raw_data |-> None], [raw_data |-> EmptyDict] }

dashRest == <<mainVars, obs, queue, pc2, cur2, position2, fpos2, state2, stats2,
              behind, peerAlone, reported, backend, conn, degraded, reconn,
              root, env, marker, collector_host>>

\* sync_repo: the row of a pull request as the sync job stores it.
sync_repo(reviews) ==
    /\ pr = None
    /\ pr' = transform_graphql_pr(reviews)
    /\ UNCHANGED <<dashRest, events, times, syncVars, sharedVars>>

\* A row that was not written by the sync job.
RestRow(p) ==
    /\ pr = None
    /\ pr' = p
    /\ UNCHANGED <<dashRest, events, times, syncVars, sharedVars>>

\* build_pr_timeline: review_events = extract_review_events(pr).
build_pr_timeline ==
    /\ pr # None
    /\ ~events.returned
    /\ events' = [returned |-> TRUE, list |-> extract_review_events(pr)]
    /\ UNCHANGED <<dashRest, pr, times, syncVars, sharedVars>>

\* calculate_pr_cycle_time: get_human_review_times(pr).
calculate_pr_cycle_time ==
    /\ pr # None
    /\ ~times.returned
    /\ LET t == get_human_review_times(pr)
       IN  times' = [returned |-> TRUE, first_review_at |-> t[1],
                     approved_at |-> t[2]]
    /\ UNCHANGED <<dashRest, pr, events, syncVars, sharedVars>>

NextReviews ==
    \/ \E reviews \in Lists(Reviews("author", "submittedAt")) : sync_repo(reviews)
    \/ \E p \in RestRows : RestRow(p)
    \/ build_pr_timeline
    \/ calculate_pr_cycle_time

SpecReviews == Init /\ [][NextReviews]_vars

(***************************************************************************)
(* The dashboard's GitHub sync (dashboard/github/sync.py, client.py).      *)
(* Instants are hours on a clock that reads Now during the sync.  GitHub   *)
(* holds, for a repository, n pull requests in updated-descending order;   *)
(* the pull request at position i has the number i; the first r were       *)
(* updated within the last day, the first k within the sync window.        *)
(***************************************************************************)
STALE_THRESHOLD_HOURS == 24

\* days_back of sync_repo.
DaysBack == 90

\* batch_size of get_pulls_graphql.
BatchSize == 50

\* Failures of transform_graphql_pr and upsert_pr injected into one run.
MaxFailures == 1

\* datetime.now(timezone.utc)
Now == 3000

since == Now - DaysBack * 24

RepoNames == {"o/r1", "o/r2"}

Servers ==
    { [n |-> 0, k |-> 0, r |-> 0, down |-> FALSE],
      [n |-> 1, k |-> 0, r |-> 0, down |-> FALSE],
      [n |-> 1, k |-> 1, r |-> 1, down |-> TRUE],
      [n |-> 13, k |-> 12, r |-> 6, down |-> FALSE],
      [n |-> 50, k |-> 50, r |-> 2, down |-> FALSE],
      [n |-> 51, k |-> 50, r |-> 0, down |-> FALSE],
      [n |-> 101, k |-> 60, r |-> 0, down |-> FALSE],
      [n |-> 101, k |-> 101, r |-> 1, down |-> FALSE] }

Configs ==
    { [github_token |-> t, github_repos |-> rs] :
        t \in BOOLEAN, rs \in { <<>>, <<"o/r1">>, <<"o/r1", "o/r2">> } }

\* The node of the pull request at position i of server g.
Node(g, i) ==
    [number |-> i,
     state |-> <<"OPEN", "MERGED", "CLOSED">>[(i % 3) + 1],
     updatedAt |-> IF i <= g.r THEN Now - 23
                   ELSE IF i <= g.k THEN Now - 25
                   ELSE since - 1]

\* The page GitHub returns for pullRequests(first: BatchSize, after: cursor).
graphql(g, cursor) ==
    LET m == IF g.n - cursor < BatchSize THEN g.n - cursor ELSE BatchSize
    IN  [nodes |-> [j \in 1..m |-> Node(g, cursor + j)],
         hasNextPage |-> cursor + BatchSize < g.n,
         endCursor |-> cursor + m]

\* The numbers of the rows the database holds for the repository.
get_existing_prs_for_repo(g) == {i \in 1..g.n : i % 2 = 0}

\* A check that skips every pull request the database holds.
should_skip_prKnown(pr_number, github_state, github_updated_at, existing_prs) ==
    pr_number \in existing_prs

should_skip_pr(pr_number, github_state, github_updated_at, existing_prs) ==
    IF pr_number \notin existing_prs THEN FALSE
    ELSE IF github_state = "OPEN" THEN FALSE
    ELSE LET stale_cutoff == Now - STALE_THRESHOLD_HOURS
         IN  IF github_updated_at > stale_cutoff THEN FALSE ELSE TRUE

syncRest == <<mainVars, obs, queue, pc2, cur2, position2, fpos2, state2, stats2,
              behind, peerAlone, reported, backend, conn, degraded, reconn,
              root, env, marker, collector_host, reviewVars, sharedVars>>

\* lifespan: the configuration is read and the sync job scheduled.
lifespan(c, g) ==
    /\ spc = "off"
    /\ config' = c
    /\ github' = g
    /\ spc' = "scheduled"
    /\ UNCHANGED <<syncRest, all_stats, sr, gen, requests, failures>>

\* run_sync, sync_all_repos up to its loop.
sync_all_repos ==
    /\ spc = "scheduled"
    /\ all_stats' = ZeroTotals
    /\ sr' = NoFrame
    /\ spc' = IF ~config.github_token \/ config.github_repos = <<>>
              THEN "returned" ELSE "repos"
    /\ UNCHANGED <<syncRest, config, github, gen, requests, failures>>

\* for repo in config.github_repos: the loop ends, or sync_repo is entered.
next_repo ==
    /\ spc = "repos"
    /\ IF sr.repo = Len(config.github_repos)
       THEN /\ spc' = "returned"
            /\ UNCHANGED <<sr, gen, requests>>
       ELSE /\ spc' = "request"
            /\ sr' = [repo |-> sr.repo + 1,
                      stats |-> [synced |-> 0, skipped |-> 0, errors |-> 0,
                                 api_calls |-> 0],
                      existing_prs |-> get_existing_prs_for_repo(
                          github[config.github_repos[sr.repo + 1]]),
                      prs_to_sync |-> <<>>,
                      total_prs_fetched |-> 0,
                      i |-> 0]
            /\ gen' = [repo |-> sr.repo + 1, cursor |-> 0, nodes |-> <<>>,
                       hasNextPage |-> FALSE, endCursor |-> 0]
            /\ requests' = <<>>
    /\ UNCHANGED <<syncRest, config, github, all_stats, failures>>

\* The server of the repository sync_repo is working on.
Server == github[config.github_repos[sr.repo]]

\* A request whose failure ends the whole run instead of the repository.
graphql_requestAborts ==
    /\ spc = "request"
    /\ requests' = Append(requests, gen.cursor)
    /\ IF Server.down
       THEN /\ all_stats' =
                [all_stats EXCEPT
                    !.repos = (config.github_repos[sr.repo] :> [error |-> TRUE])
                              @@ @,
                    !.total_errors = @ + 1]
            /\ spc' = "returned"
            /\ UNCHANGED gen
       ELSE /\ LET pr_data == graphql(Server, gen.cursor)
               IN  gen' = [gen EXCEPT !.nodes = pr_data.nodes,
                                      !.hasNextPage = pr_data.hasNextPage,
                                      !.endCursor = pr_data.endCursor]
            /\ spc' = "nodes"
            /\ UNCHANGED all_stats
    /\ UNCHANGED <<syncRest, config, github, sr, failures>>

\* _graphql: one page request.  A request that fails raises out of
\* sync_repo into the except clause of sync_all_repos.
graphql_request ==
    /\ spc = "request"
    /\ requests' = Append(requests, gen.cursor)
    /\ IF Server.down
       THEN /\ all_stats' =
                [all_stats EXCEPT
                    !.repos = (config.github_repos[sr.repo] :> [error |-> TRUE])
                              @@ @,
                    !.total_errors = @ + 1]
            /\ spc' = "repos"
            /\ UNCHANGED gen
       ELSE /\ LET pr_data == graphql(Server, gen.cursor)
               IN  gen' = [gen EXCEPT !.nodes = pr_data.nodes,
                                      !.hasNextPage = pr_data.hasNextPage,
                                      !.endCursor = pr_data.endCursor]
            /\ spc' = "nodes"
            /\ UNCHANGED all_stats
    /\ UNCHANGED <<syncRest, config, github, sr, failures>>

\* for pr in pr_data["nodes"]: a pull request inside the window is yielded,
\* and the body of sync_repo's async for runs on it.
yield_pr ==
    /\ spc = "nodes"
    /\ gen.nodes # <<>>
    /\ ~(Head(gen.nodes).updatedAt < since)
    /\ LET pr_ == Head(gen.nodes)
       IN  sr' = IF should_skip_pr(pr_.number, pr_.state, pr_.updatedAt,
                                   sr.existing_prs)
                 THEN [sr EXCEPT !.total_prs_fetched = @ + 1,
                                 !.stats.skipped = @ + 1]
                 ELSE [sr EXCEPT !.total_prs_fetched = @ + 1,
                                 !.prs_to_sync = Append(@, pr_)]
    /\ gen' = [gen EXCEPT !.nodes = Tail(@)]
    /\ UNCHANGED <<syncRest, config, github, spc, all_stats, requests,
                   failures>>

\* The api_calls statistic from the number of pull requests fetched.
api_calls(total_prs_fetched) == (total_prs_fetched + 49) \div 50

\* The generator is exhausted; sync_repo goes on after its async for.
fetched ==
    /\ sr' = [sr EXCEPT !.stats.api_calls = api_calls(sr.total_prs_fetched)]
    /\ spc' = "processing"
    /\ UNCHANGED <<syncRest, config, github, all_stats, requests, failures>>

\* A cut-off that only leaves the loop over the page's nodes.
cut_offBreaks ==
    /\ spc = "nodes"
    /\ gen.nodes # <<>>
    /\ Head(gen.nodes).updatedAt < since
    /\ IF ~gen.hasNextPage
       THEN /\ fetched
            /\ UNCHANGED gen
       ELSE /\ gen' = [gen EXCEPT !.cursor = gen.endCursor]
            /\ spc' = "request"
            /\ UNCHANGED <<syncRest, config, github, all_stats, sr, requests,
                           failures>>

\* A pull request older than the window: the generator returns.
cut_off ==
    /\ spc = "nodes"
    /\ gen.nodes # <<>>
    /\ Head(gen.nodes).updatedAt < since
    /\ fetched
    /\ UNCHANGED gen

\* The page is used up: the generator stops after the last page, or goes on
\* with the page after endCursor.
page_done ==
    /\ spc = "nodes"
    /\ gen.nodes = <<>>
    /\ IF ~gen.hasNextPage
       THEN /\ fetched
            /\ UNCHANGED gen
       ELSE /\ gen' = [gen EXCEPT !.cursor = gen.endCursor]
            /\ spc' = "request"
            /\ UNCHANGED <<syncRest, config, github, all_stats, sr, requests,
                           failures>>

\* A loop that a raising pull request ends: the remainder is abandoned.
process_prAborts(outcome) ==
    /\ spc = "processing"
    /\ sr.i < Len(sr.prs_to_sync)
    /\ outcome # "stored" => failures < MaxFailures
    /\ failures' = IF outcome = "stored" THEN failures ELSE failures + 1
    /\ sr' = IF outcome = "stored"
             THEN [sr EXCEPT !.i = @ + 1, !.stats.synced = @ + 1]
             ELSE IF outcome = "refused"
             THEN [sr EXCEPT !.i = @ + 1, !.stats.errors = @ + 1]
             ELSE [sr EXCEPT !.i = Len(sr.prs_to_sync), !.stats.errors = @ + 1]
    /\ UNCHANGED <<syncRest, config, github, spc, all_stats, gen, requests>>

\* for pr in prs_to_sync: transform_graphql_pr and upsert_pr; the upsert
\* returns True ("stored") or False ("refused"), or one of the two raises.
process_pr(outcome) ==
    /\ spc = "processing"
    /\ sr.i < Len(sr.prs_to_sync)
    /\ outcome # "stored" => failures < MaxFailures
    /\ failures' = IF outcome = "stored" THEN failures ELSE failures + 1
    /\ sr' = IF outcome = "stored"
             THEN [sr EXCEPT !.i = @ + 1, !.stats.synced = @ + 1]
             ELSE [sr EXCEPT !.i = @ + 1, !.stats.errors = @ + 1]
    /\ UNCHANGED <<syncRest, config, github, spc, all_stats, gen, requests>>

\* sync_repo returns its stats; sync_all_repos adds them up.
sync_repo_returns ==
    /\ spc = "processing"
    /\ sr.i = Len(sr.prs_to_sync)
    /\ all_stats' =
           [all_stats EXCEPT
               !.repos = (config.github_repos[sr.repo] :> sr.stats) @@ @,
               !.total_synced = @ + sr.stats.synced,
               !.total_skipped = @ + sr.stats.skipped,
               !.total_errors = @ + sr.stats.errors,
               !.total_api_calls = @ + sr.stats.api_calls]
    /\ spc' = "repos"
    /\ UNCHANGED <<syncRest, config, github, sr, gen, requests, failures>>

NextSync ==
    \/ \E c \in Configs, g \in [RepoNames -> Servers] : lifespan(c, g)
    \/ sync_all_repos
    \/ next_repo
    \/ graphql_request
    \/ yield_pr
    \/ cut_off
    \/ page_done
    \/ \E outcome \in {"stored", "refused", "raised"} : process_pr(outcome)
    \/ sync_repo_returns

SpecSync == Init /\ [][NextSync]_vars

(***************************************************************************)
(* The dashboard's DatabaseClient shared by two threads (dashboard/db.py,  *)
(* main.py): the scheduler's thread runs upsert_pr for the sync job, the   *)
(* server's thread runs get_prs for a request.  A step is one access to    *)
(* self._conn; connections are numbered in the order they are made.        *)
(***************************************************************************)
\* Connections made during one run.
MaxConnections == 5

sharedRest == <<dashRest, reviewVars, syncVars>>

\* lifespan: db.connect(), app.state.db = db, scheduler.start().
db_connect ==
    /\ upc = "off"
    /\ db_conn' = 1
    /\ opened' = 1
    /\ upc' = "idle"
    /\ qpc' = "idle"
    /\ UNCHANGED <<sharedRest, discarded, ucur, qcur>>

\* ensure_connected: connect() when self._conn is None.
Reconnects ==
    IF db_conn = 0
    THEN opened < MaxConnections /\ db_conn' = opened + 1
         /\ opened' = opened + 1
    ELSE UNCHANGED <<db_conn, opened>>

\* upsert_pr: self.ensure_connected()
upsert_pr_ensure ==
    /\ upc = "idle"
    /\ Reconnects
    /\ upc' = "checked"
    /\ UNCHANGED <<sharedRest, discarded, ucur, qpc, qcur>>

\* upsert_pr: self._conn.cursor()
upsert_pr_cursor ==
    /\ upc = "checked"
    /\ IF db_conn = 0
       THEN upc' = "raised" /\ UNCHANGED ucur
       ELSE upc' = "cursor" /\ ucur' = db_conn
    /\ UNCHANGED <<sharedRest, db_conn, opened, discarded, qpc, qcur>>

\* upsert_pr: cur.execute(...) returns, or raises psycopg2.Error.
upsert_pr_execute(ok) ==
    /\ upc = "cursor"
    /\ IF ok THEN upc' = "idle" /\ ucur' = 0
             ELSE upc' = "failed" /\ UNCHANGED ucur
    /\ UNCHANGED <<sharedRest, db_conn, opened, discarded, qpc, qcur>>

\* upsert_pr: except psycopg2.Error: self._conn = None; return False
upsert_pr_discard ==
    /\ upc = "failed"
    /\ discarded' = discarded \cup ({db_conn} \ {0})
    /\ db_conn' = 0
    /\ upc' = "idle"
    /\ ucur' = 0
    /\ UNCHANGED <<sharedRest, opened, qpc, qcur>>

\* get_prs: self.ensure_connected(), for a new request.
get_prs_ensure ==
    /\ qpc \in {"idle", "raised"}
    /\ Reconnects
    /\ qpc' = "checked"
    /\ UNCHANGED <<sharedRest, discarded, upc, ucur, qcur>>

\* get_prs: self._conn.cursor(...); on None the AttributeError leaves
\* get_prs, whose except clause names psycopg2.Error only.
get_prs_cursor ==
    /\ qpc = "checked"
    /\ IF db_conn = 0
       THEN qpc' = "raised" /\ UNCHANGED qcur
       ELSE qpc' = "cursor" /\ qcur' = db_conn
    /\ UNCHANGED <<sharedRest, db_conn, opened, discarded, upc, ucur>>

\* get_prs: cur.execute(query, params) and the return.
get_prs_execute ==
    /\ qpc = "cursor"
    /\ qpc' = "idle"
    /\ qcur' = 0
    /\ UNCHANGED <<sharedRest, db_conn, opened, discarded, upc, ucur>>

NextShared ==
    \/ db_connect
    \/ upsert_pr_ensure
    \/ upsert_pr_cursor
    \/ \E ok \in BOOLEAN : upsert_pr_execute(ok)
    \/ upsert_pr_discard
    \/ get_prs_ensure
    \/ get_prs_cursor
    \/ get_prs_execute

SpecShared == Init /\ [][NextShared]_vars

(***************************************************************************)
(* What the claims speak of: the lines of a file and their rows.           *)
(***************************************************************************)
\* Byte offsets at which a line of f begins.
LineStarts(f) ==
    {k \in 0..(Len(f) - 1) : k = 0 \/ f[k] = NL}

\* The bytes of the line that begins at k, terminator included if written.
LineAt(f, k) ==
    LET ends == {i \in (k + 1)..Len(f) : f[i] = NL}
    IN  IF ends = {} THEN SubSeq(f, k + 1, Len(f))
        ELSE SubSeq(f, k + 1, CHOOSE i \in ends : \A j \in ends : i <= j)

Terminated(l) == l # <<>> /\ l[Len(l)] = NL

\* The well-formed JSON texts that can be written with the bytes of LineSet.
GoodTexts == { <<"[", "]">>, <<"[", "1", "]">> }

Trimmed(l) ==
    LET idx == {i \in 1..Len(l) : l[i] \notin {" ", NL}}
    IN  IF idx = {} THEN <<>>
        ELSE SubSeq(l, CHOOSE i \in idx : \A j \in idx : i <= j,
                       CHOOSE i \in idx : \A j \in idx : i >= j)

\* Offsets of the complete, non-blank, well-formed lines of f.
GoodLines(f) ==
    {k \in LineStarts(f) :
        Terminated(LineAt(f, k)) /\ Trimmed(LineAt(f, k)) \in GoodTexts}

Stored(p, k) ==
    \E r \in sink : r.host = Host /\ r.path = p /\ r.offset = k

RowsOf(p) == {r \in sink : r.path = p}

\* The offset a restart would read for p from the snapshot file.
Persisted(p) ==
    IF disk.exists /\ disk.valid /\ disk.map.type = "object"
          /\ \E n \in 1..MaxBytes : <<p, n>> \in disk.map.items
    THEN CHOOSE n \in 1..MaxBytes : <<p, n>> \in disk.map.items
    ELSE 0

AtEof == pc = "reading" /\ fpos >= Len(files[cur])

(***************************************************************************)
(* C1. Offset implies persisted: every complete well-formed line that      *)
(* begins below the persisted offset of its file has a row with key        *)
(* (host, path, offset) in the sink.                                       *)
(***************************************************************************)
OffsetImpliesPersisted ==
    \A p \in Paths : \A k \in GoodLines(files[p]) :
        k < Persisted(p) => Stored(p, k)

(***************************************************************************)
(* C2. Never lose a line: when a pass that was opened after a well-formed  *)
(* line was complete has read to end-of-file and every sink call of the    *)
(* pass was accepted, that line is stored.                                 *)
(***************************************************************************)
NeverLoseLine ==
    (AtEof /\ clean) =>
        \A k \in GoodLines(files[cur]) :
            k + Len(LineAt(files[cur], k)) <= startLen => Stored(cur, k)

\* The same with a sink that has never raised: the loss is the writer's
\* two-write line alone.
NeverLoseLineSinkUp ==
    (AtEof /\ ~everFailed) =>
        \A k \in GoodLines(files[cur]) :
            k + Len(LineAt(files[cur], k)) <= startLen => Stored(cur, k)

(***************************************************************************)
(* C3. Never double-count: the sink holds at most one row per (host,       *)
(* path, offset), and no more rows for a file than the file has non-blank  *)
(* well-formed lines.                                                      *)
(***************************************************************************)
NeverDoubleCount ==
    /\ \A r1, r2 \in sink :
          (r1.host = r2.host /\ r1.path = r2.path /\ r1.offset = r2.offset)
              => r1 = r2
    /\ \A p \in Paths :
          Cardinality(RowsOf(p)) <= Cardinality(GoodLines(files[p]))

\* A re-read line was refused by the sink and the file still has one row.
DoubleCountWitness ==
    /\ calls.duplicate > 0
    /\ \E p \in Paths : Cardinality(RowsOf(p)) = 2

(***************************************************************************)
(* C4. Idempotence of a full re-pass: once a pass from offset 0 has read   *)
(* the file to its end with every sink call accepted, a second pass from   *)
(* offset 0 over the unchanged file leaves the rows as they are; the       *)
(* inserted counter does not grow, and every sink call that returns adds   *)
(* one to the duplicate counter.                                           *)
(***************************************************************************)
SecondPass ==
    /\ pc = "reading"
    /\ position = 0
    /\ full0[cur] > 0
    /\ full0[cur] = Len(files[cur])

IdempotentRepass ==
    [][(SecondPass /\ pc' # "down") =>
          /\ sink' = sink
          /\ stats'.inserted = stats.inserted
          /\ (pc' = "reading" /\ fpos \in offered' /\ calls'.raised = calls.raised)
                => (stats'.skipped = stats.skipped + 1
                    /\ stats'.errors = stats.errors)]_vars

\* The second pass has re-read the whole file and counted a duplicate.
RepassWitness ==
    SecondPass /\ AtEof /\ clean /\ stats.skipped > 0 /\ stats.inserted = 0

(***************************************************************************)
(* C5. Crash safety: a pass after a restart starts from the offset the     *)
(* snapshot holds; an insert re-issued for a stored line adds no row; and  *)
(* when no sink call has ever raised, a file read to its end has exactly   *)
(* the rows of its well-formed lines, crashes or not.                      *)
(***************************************************************************)
ExpectedRows(p) ==
    {Row(Host, p, k, SelectSeq(Trimmed(LineAt(files[p], k)), NotSpace)) :
        k \in GoodLines(files[p])}

ReadToEnd(p) == pc = "idle" /\ state[p] = Len(files[p])

CrashSafetyState ==
    /\ pc = "reading" => position = Persisted(cur)
    /\ \A p \in Paths :
          (ReadToEnd(p) /\ ~everFailed) => RowsOf(p) = ExpectedRows(p)

CrashSafety ==
    [][/\ CrashSafetyState'
       /\ (pc = "reading" /\ Stored(cur, fpos)) => sink' = sink]_vars

\* A crash cut a pass after an insert; after the restart the file was read
\* to its end and the re-issued insert was refused.
CrashWitness ==
    /\ cut
    /\ ~everFailed
    /\ calls.duplicate > 0
    /\ \E p \in Paths : ReadToEnd(p) /\ RowsOf(p) # {}

(***************************************************************************)
(* C6. Resumption: a pass offers to the sink exactly the well-formed       *)
(* lines between its starting offset and the stream position; if the sink  *)
(* held no row of them when the pass opened the file and accepts every     *)
(* call, the rows at or past the starting offset are exactly those lines;  *)
(* the rows below the starting offset are left as they were.               *)
(***************************************************************************)
NewLines == {k \in GoodLines(files[cur]) : position <= k /\ k < fpos}

RowsBelow(snk, p, n) == {r \in snk : r.path = p /\ r.offset < n}

ResumptionState ==
    pc = "reading" =>
        /\ offered = NewLines
        /\ (clean /\ fresh) =>
              {r \in RowsOf(cur) : r.offset >= position}
                  = {r \in ExpectedRows(cur) : r.offset \in NewLines}

Resumption ==
    [][/\ ResumptionState'
       /\ pc = "reading" =>
             RowsBelow(sink', cur, position) = RowsBelow(sink, cur, position)]_vars

\* A pass that resumed past stored rows has stored a new line.
ResumptionWitness ==
    /\ AtEof /\ clean /\ fresh
    /\ position > 0
    /\ RowsBelow(sink, cur, position) # {}
    /\ offered # {}
    /\ Cardinality(RowsOf(cur)) = Cardinality(RowsBelow(sink, cur, position)) + Cardinality(offered)

(***************************************************************************)
(* C7. Offset monotonicity: while the process lives, no recorded offset    *)
(* decreases; an offset changes only to the end position of the pass on    *)
(* that file; and a pass starts at exactly the recorded offset.            *)
(***************************************************************************)
OffsetMonotone ==
    [][(pc # "down" /\ pc' # "down") =>
          /\ \A p \in Paths :
                /\ state'[p] >= state[p]
                /\ state'[p] # state[p] => (pc = "reading" /\ cur = p /\ state'[p] = fpos)
          /\ (pc = "idle" /\ pc' = "reading") => position' = state[cur']]_vars

\* A second pass on a file has started at the offset the first one recorded
\* and has read on from there; every row of the sink was inserted by this
\* process, so the first pass was one of its own.
MonotoneWitness ==
    /\ pc = "reading"
    /\ position > 0
    /\ position = state[cur]
    /\ fpos > position
    /\ calls.inserted = Cardinality(sink)
    /\ RowsBelow(sink, cur, position) # {}

(***************************************************************************)
(* C8. One offset commit per pass, at the end: the Progress Store (the     *)
(* map and the snapshot file) is written only by the step that leaves the  *)
(* read loop at end-of-file, and by the dump that completes that write;    *)
(* a step that reads a line writes nothing.                                *)
(***************************************************************************)
OneCommitAtEnd ==
    [][(pc # "down" /\ pc' # "down" /\ (state' # state \/ disk' # disk)) =>
          \/ /\ pc = "reading"
             /\ fpos >= Len(files[cur])
             /\ pc' = "saving"
             /\ state' = [state EXCEPT ![cur] = fpos]
          \/ /\ pc = "saving"
             /\ pc' = "idle"
             /\ state' = state]_vars

\* A pass has made two sink calls and stands at end-of-file, its commit
\* still to come: neither the map nor the snapshot has been written.
OneCommitWitness ==
    /\ AtEof
    /\ Cardinality(offered) >= 2
    /\ fpos > position
    /\ state[cur] = position
    /\ disk = Snapshot(state)

OpenFailureIsolated ==
    [][/\ \A p \in Paths :
             (p \in ioerr' /\ (p \notin ioerr \/ p \in sweep)) =>
                 /\ sink' = sink
                 /\ stats' = stats
                 /\ calls' = calls
                 /\ state' = state
                 /\ disk' = disk
                 /\ pc' = "idle"
                 /\ sweep' = sweep \ {p}
       /\ (pc = "idle" /\ pc' = "reading") => position' = state[cur']]_vars

\* The sweep met a file it could not open and is storing the lines of the
\* next one; the unopened file keeps its offset.
OpenFailureWitness ==
    /\ pc = "reading"
    /\ sweep = {}
    /\ ioerr # {}
    /\ cur \notin ioerr
    /\ offered # {}
    /\ calls.inserted > 0
    /\ \E p \in ioerr : files[p] # <<>> /\ state[p] = 0

(***************************************************************************)
(* C11. Malformed-line tolerance: a step of the read loop that reads a     *)
(* complete line that is not well-formed JSON stores nothing, keeps the    *)
(* pass in its loop, and adds exactly one to the error counter.            *)
(***************************************************************************)
\* The malformed texts that can be written with the bytes of LineSet.
BadTexts == { <<"]">> }

ReadsMalformed ==
    /\ pc = "reading"
    /\ fpos < Len(files[cur])
    /\ Trimmed(LineAt(files[cur], fpos)) \in BadTexts
    /\ fpos' > fpos

MalformedCounted ==
    [][ReadsMalformed =>
          /\ sink' = sink
          /\ pc' = "reading"
          /\ stats'.errors = stats.errors + 1]_vars

\* The same step without the counter: nothing is stored, nothing is offered
\* and the pass stays in its loop at the next line.
MalformedSkipped ==
    [][ReadsMalformed =>
          /\ sink' = sink
          /\ offered' = offered
          /\ pc' = "reading"
          /\ fpos' = fpos + Len(LineAt(files[cur], fpos))]_vars

(***************************************************************************)
(* C12. Blank lines: a step that reads a line that is empty after          *)
(* trimming calls the sink not at all and leaves the three counters as     *)
(* they are; and a pass that has read a blank line ends with a commit of   *)
(* an offset at or past the end of that line.                              *)
(***************************************************************************)
BlankLines(f) ==
    {k \in LineStarts(f) :
        Terminated(LineAt(f, k)) /\ Trimmed(LineAt(f, k)) = <<>>}

BlankLinesSkipped ==
    [][/\ (pc = "reading" /\ fpos' > fpos /\ fpos \in BlankLines(files[cur])) =>
             /\ sink' = sink
             /\ stats' = stats
             /\ calls' = calls
             /\ offered' = offered
       /\ (pc = "reading" /\ pc' \in {"idle", "saving"}) =>
             \A k \in BlankLines(files[cur]) :
                 position <= k =>
                     /\ pc' = "saving"
                     /\ state'[cur] >= k + Len(LineAt(files[cur], k))]_vars

\* A file of a blank line and a well-formed line has been read to its end:
\* one sink call, one row, and the offset is committed past both lines.
BlankLineWitness ==
    /\ pc = "idle"
    /\ disk = Snapshot(state)
    /\ calls = [inserted |-> 1, duplicate |-> 0, raised |-> 0]
    /\ stats = [inserted |-> 1, skipped |-> 0, errors |-> 0]
    /\ Cardinality(sink) = 1
    /\ \E p \in Paths :
          /\ 0 \in BlankLines(files[p])
          /\ Cardinality(GoodLines(files[p])) = 1
          /\ state[p] = Len(files[p])

(***************************************************************************)
(* C13. No-advance no-op: a pass that leaves its read loop at a stream     *)
(* position not greater than its starting offset writes neither the map    *)
(* in memory nor the snapshot file, and the process is idle again.         *)
(***************************************************************************)
NoAdvanceNoop ==
    [][(pc = "reading" /\ pc' \in {"idle", "saving"} /\ ~(fpos > position)) =>
          /\ state' = state
          /\ disk' = disk
          /\ pc' = "idle"]_vars

\* After a restart the sweep has passed over a file that was already read
\* to its end: the pass made no sink call, and the map and the snapshot are
\* as the restart loaded them.
NoAdvanceWitness ==
    /\ pc = "idle"
    /\ sweep # {}
    /\ calls = ZeroCalls
    /\ disk = Snapshot(state)
    /\ \E p \in Paths \ sweep :
          /\ p \notin ioerr
          /\ GoodLines(files[p]) # {}
          /\ BlankLines(files[p]) = {}
          /\ Cardinality(LineStarts(files[p])) = 1
          /\ state[p] = Len(files[p])

(***************************************************************************)
(* C18. Progress Store load: a start over a snapshot file that is missing  *)
(* or is not a valid path-to-offset mapping gives the empty map, every     *)
(* offset 0.                                                               *)
(***************************************************************************)
\* The snapshot file holds a path-to-offset mapping.
IsMapping(d) == d.exists /\ d.valid /\ d.map.type = "object"

LoadTolerant ==
    [][(pc = "down" /\ pc' = "idle" /\ ~IsMapping(disk)) =>
          state' = ZeroMap]_vars

\* The same for a file that is missing or does not decode at all.
LoadTolerantUndecodable ==
    [][(pc = "down" /\ pc' = "idle" /\ ~(disk.exists /\ disk.valid)) =>
          state' = ZeroMap]_vars

(***************************************************************************)
(* C19. Progress Store round trip: the commit sets the entry of the file   *)
(* of the pass to the stream position and no other entry; when the save    *)
(* that follows has returned, the snapshot file exists, decodes, and a     *)
(* load of it gives the map in memory, entry by entry (0 for a path        *)
(* without one); and so it is whenever the process is idle.                *)
(***************************************************************************)
RoundTrip ==
    [][/\ (pc = "reading" /\ pc' = "saving") =>
             /\ state'[cur] = fpos
             /\ \A p \in Paths \ {cur} : state'[p] = state[p]
       /\ (pc = "saving" /\ pc' = "idle") =>
             /\ IsMapping(disk')
             /\ state' = state
             /\ \A p \in Paths : Load(disk')[p] = state[p]
       /\ pc' = "idle" => Load(disk') = state']_vars

\* Two files have been read and committed, the second save has returned,
\* and the snapshot holds both offsets.
RoundTripWitness ==
    /\ pc = "idle"
    /\ \A p \in Paths : state[p] > 0 /\ Persisted(p) = state[p]
    /\ \E p, q \in Paths : state[p] # state[q]
    /\ calls.inserted > 0

AtEof2 == pc2 = "reading" /\ fpos2 >= Len(files[cur2])

EventCoalescingState ==
    (AtEof2 /\ ~everFailed) => RowsOf(cur2) = ExpectedRows(cur2)

EventCoalescing ==
    [][/\ (pc2 = "reading" /\ state[cur2] >= Len(files[cur2])) =>
             /\ sink' = sink
             /\ calls' = calls
             /\ state' = state
             /\ disk' = disk
       /\ EventCoalescingState']_vars

\* A line written between the end of the sweep and the start of the watch
\* was left unread; the pass of a later event has read on from the offset
\* the file had then, and the file has all its rows.
EventWitness ==
    /\ AtEof2
    /\ ~everFailed
    /\ position2 = behind[cur2]
    /\ fpos2 > position2
    /\ RowsOf(cur2) = ExpectedRows(cur2)
    /\ Cardinality(RowsOf(cur2)) = 2

(***************************************************************************)
(* C15. Serialized passes: a pass of the sweep and a pass of a callback    *)
(* are never in flight together, and while a pass is in its read loop the  *)
(* offset of its file in the Progress Store is still the one it started    *)
(* from.                                                                   *)
(***************************************************************************)
InPass(c) == c \in {"reading", "saving"}

Serialized ==
    /\ ~(InPass(pc) /\ InPass(pc2))
    /\ pc = "reading" => state[cur] = position
    /\ pc2 = "reading" => state[cur2] = position2

\* A callback's pass reads on from the offset the sweep committed.
SerializedWitness ==
    /\ pc2 = "reading"
    /\ behind[cur2] = -1
    /\ position2 > 0
    /\ fpos2 > position2
    /\ queue # <<>>

(***************************************************************************)
(* C16. Racing coordinators: with two coordinators of one host on the      *)
(* same files and the same snapshot file, the sink never holds two rows    *)
(* with one key, and whenever either coordinator is idle with a file read  *)
(* to its end and no sink call has raised, the file has exactly the rows   *)
(* of its well-formed lines.                                               *)
(***************************************************************************)
ReadToEnd2(p) == pc2 = "idle" /\ state2[p] = Len(files[p])

RaceSafe ==
    /\ \A r1, r2 \in sink :
          (r1.host = r2.host /\ r1.path = r2.path /\ r1.offset = r2.offset)
              => r1 = r2
    /\ ~everFailed =>
          \A p \in Paths :
              (ReadToEnd(p) \/ ReadToEnd2(p)) => RowsOf(p) = ExpectedRows(p)

\* The second coordinator has read a file of two lines to its end and saved
\* the offset; the first one, which had read one line only, saved after it:
\* the snapshot holds the lower offset, and both rows are stored.
RaceWitness ==
    /\ pc = "idle"
    /\ pc2 = "idle"
    /\ ~everFailed
    /\ \E p \in Paths :
          /\ ReadToEnd2(p)
          /\ state[p] > 0
          /\ state[p] < state2[p]
          /\ IsMapping(disk)
          /\ Persisted(p) = state[p]
          /\ Cardinality(RowsOf(p)) = 2
          /\ RowsOf(p) = ExpectedRows(p)
          /\ stats.inserted + stats2.inserted = 2

(***************************************************************************)
(* C17. Independent collectors: a step that changes the rows of one host   *)
(* leaves the rows of the other host as they are; the collector is told    *)
(* "inserted" for a line exactly when it has no row of its own with the    *)
(* line's path and offset, whatever rows the peer has there; a file the    *)
(* collector has read to its end, with no sink call raised, has exactly    *)
(* the rows of its well-formed lines under the collector's host; and the   *)
(* peer's rows are those its calls give in a sink it has to itself.        *)
(***************************************************************************)
RowsOfHost(snk, h) == {r \in snk : r.host = h}

AloneState ==
    /\ RowsOfHost(sink, PeerHost) = peerAlone
    /\ ~everFailed =>
          \A p \in Paths :
              ReadToEnd(p) =>
                  {r \in RowsOfHost(sink, Host) : r.path = p} = ExpectedRows(p)

Exited == pc = "exited"

GracefulStop ==
    Exited =>
        /\ reported # NotReported
        /\ obs \in {"off", "closed"}
        /\ pc2 = "idle"
        /\ disk = Snapshot(state)

\* The same for a signal taken in the live watch alone: the callback in
\* flight ends with its commit before the process exits.
GracefulStopWatch ==
    (Exited /\ obs = "closed") =>
        /\ reported # NotReported
        /\ pc2 = "idle"
        /\ disk = Snapshot(state)

\* A signal taken in the sweep outside _save leaves the snapshot as the
\* last finished commit wrote it.
GracefulStopSweep ==
    [][(signal_handlerSweep /\ pc # "saving") =>
          /\ disk' = Snapshot(state)
          /\ reported' = stats]_vars
(***************************************************************************)
(* C22. Degraded startup: whether or not the backend can be reached and    *)
(* the schema initialised, main() goes on to the sweep with the process    *)
(* up; and every insert attempt that finds the client without a            *)
(* connection calls connect() before its statement.                        *)
(***************************************************************************)
\* A step of the read loop that hands a line to on_line.
InsertStep == ReadLineConn /\ offered' # offered

LazyReconnect ==
    [][InsertStep =>
         /\ (stats'.errors # stats.errors) => conn' = "none"
         /\ (conn = "none" /\ backend = "up") =>
               (conn' = "live" /\ reconn' = "connected")
         /\ (backend = "up" /\ conn # "stale" /\ ~Stored(cur, fpos)) =>
               /\ \E r \in sink' \ sink :
                     r.host = Host /\ r.path = cur /\ r.offset = fpos
               /\ stats'.inserted = stats.inserted + 1
               /\ stats'.errors = stats.errors
         /\ (backend = "up" /\ conn = "stale") => conn' = "none"]_vars

\* The backend went away under a live connection and came back; one insert
\* failed on the stale connection, and a later one connected and stored.
LazyReconnectWitness ==
    /\ ~degraded
    /\ backend = "up"
    /\ conn = "live"
    /\ reconn = "connected"
    /\ stats.errors = 1
    /\ stats.inserted = 1
(***************************************************************************)
(* C24. Record offsets: every record of a file carries as its offset the   *)
(* summed byte lengths, terminators included, of the lines before the line *)
(* it was read from, and as its payload the value of that line, from       *)
(* whatever offset the pass began; and a pass from offset 0 over a file    *)
(* of a JSON line, an empty line and a JSON line, with every sink call     *)
(* accepted, leaves exactly two records, at 0 and at the length of the     *)
(* first two lines.                                                        *)
(***************************************************************************)
\* The lines of f in order, each with its terminator.
RECURSIVE SplitLines(_)
SplitLines(f) ==
    IF f = <<>> THEN <<>>
    ELSE LET l == LineAt(f, 0)
         IN  <<l>> \o SplitLines(SubSeq(f, Len(l) + 1, Len(f)))

\* Summed byte lengths of the first n lines of ls.
RECURSIVE SumLen(_, _)
SumLen(ls, n) == IF n = 0 THEN 0 ELSE SumLen(ls, n - 1) + Len(ls[n])

ShortTexts == { <<"1">>, <<"[", "]">> }

JsonBlankJson(f) ==
    LET ls == SplitLines(f)
    IN  /\ Len(ls) = 3
        /\ \A i \in {1, 3} :
              Terminated(ls[i]) /\ Trimmed(ls[i]) \in ShortTexts
        /\ ls[2] = <<NL>>

RecordOffsets ==
    /\ \A r \in sink :
          LET ls == SplitLines(files[r.path])
          IN  \E i \in 1..Len(ls) :
                 /\ r.offset = SumLen(ls, i - 1)
                 /\ r.payload = Trimmed(ls[i])
    /\ (AtEof /\ position = 0 /\ clean /\ JsonBlankJson(files[cur])) =>
          LET ls == SplitLines(files[cur])
          IN  /\ Cardinality(RowsOf(cur)) = 2
              /\ {r.offset : r \in RowsOf(cur)} = {0, Len(ls[1]) + Len(ls[2])}

\* A pass from offset 0 has read such a file to its end: two records, the
\* second at the length of the JSON line and the empty line before it.
RecordOffsetsWitness ==
    /\ AtEof
    /\ position = 0
    /\ clean
    /\ JsonBlankJson(files[cur])
    /\ files[cur][1] = "["
    /\ {r.offset : r \in RowsOf(cur)} = {0, 4}
(***************************************************************************)
(* C25. Null-byte sanitisation: no stored payload holds NUL, as the byte   *)
(* or as the escape; and when a pass from offset 0 with every sink call    *)
(* accepted has read a file to its end, every complete line of it that     *)
(* holds NUL and is well-formed JSON apart from that has its record.       *)
(***************************************************************************)
HasNul(s) ==
    \/ \E i \in 1..Len(s) : s[i] = NulByte
    \/ \E i \in 1..(Len(s) - 1) : SubSeq(s, i, i + 1) = NulEscape

\* s with one NUL form, the leftmost, taken out.
WithoutOneNul(s) ==
    LET at == {i \in 1..Len(s) :
                  \/ s[i] = NulByte
                  \/ i < Len(s) /\ SubSeq(s, i, i + 1) = NulEscape}
        i == CHOOSE j \in at : \A k \in at : j <= k
        n == IF s[i] = NulByte THEN 1 ELSE 2
    IN  SubSeq(s, 1, i - 1) \o SubSeq(s, i + n, Len(s))

\* s with its NUL forms taken out until none is left.
RECURSIVE WithoutNul(_)
WithoutNul(s) == IF HasNul(s) THEN WithoutNul(WithoutOneNul(s)) ELSE s

NulFreeTexts == { <<QUOTE, QUOTE>>, <<"[", "]">>, <<"1">> }

\* Offsets of the complete lines of f that hold NUL and are well-formed
\* JSON apart from that.
NulLinesOf(f) ==
    {k \in LineStarts(f) :
        /\ Terminated(LineAt(f, k))
        /\ HasNul(LineAt(f, k))
        /\ WithoutNul(Trimmed(LineAt(f, k))) \in NulFreeTexts}

NulSanitised ==
    /\ \A r \in sink : ~HasNul(r.payload)
    /\ (AtEof /\ position = 0 /\ clean) =>
          \A k \in NulLinesOf(files[cur]) : Stored(cur, k)

\* A NUL form that begins inside the escape of another one.
Nested(l) ==
    \E i \in 1..(Len(l) - 1) :
        l[i] = NulEscape[1] /\ l[i + 1] \in {NulByte, NulEscape[1]}

\* The same for files in which no NUL form stands inside another.
NulSanitisedFlat ==
    (\A p \in Paths : \A k \in LineStarts(files[p]) :
         ~Nested(LineAt(files[p], k))) =>
        /\ \A r \in sink : ~HasNul(r.payload) /\ r.payload \in NulFreeTexts
        /\ (AtEof /\ position = 0 /\ clean) =>
              \A k \in NulLinesOf(files[cur]) : Stored(cur, k)
(***************************************************************************)
(* C26. Startup sweep and filter: a pass is run only for a regular file    *)
(* with the .jsonl suffix, never for a directory or another file, in the   *)
(* sweep as in the live watch; a pass begins at the offset the Progress    *)
(* Store holds for its file; and when the live watch runs, the sweep is    *)
(* over and the root exists.                                               *)
(***************************************************************************)
SweepAndFilter ==
    /\ cur \in Paths \cup {NoPath}
    /\ ioerr \subseteq Paths
    /\ pc = "reading" => position = state[cur]
    /\ obs = "on" => (root /\ sweep = {})

\* The same without the directories that the sweep's pattern matches, and
\* with what a pass on such a directory comes to: nothing is read or
\* stored, and no event of the live watch leads to one.
SweepAndFilterFiles ==
    /\ cur \in Paths \cup {NoPath}
    /\ ioerr \subseteq Paths \cup {e \in Dirs : endswith_jsonl(e)}
    /\ \A r \in sink : r.path \in Paths
    /\ pc = "reading" => position = state[cur]
    /\ obs = "on" => (root /\ sweep = {})

\* Every entry the sweep was to visit leaves it by a pass of its own, and
\* after the watch has started no directory gets a pass.
SweepVisitsAll ==
    [][/\ (sweep' # sweep /\ ~process_existing_files) =>
            \E e \in sweep :
               /\ sweep' = sweep \ {e}
               /\ cur' = e \/ e \in ioerr'
       /\ obs = "on" => (ioerr' \cap Dirs) \subseteq ioerr]_vars
(***************************************************************************)
(* C27. Host identifier resolution: a start resolves to the override when  *)
(* one is set, else to the content of the hostname file when it exists,    *)
(* else to the system hostname; it never changes an existing hostname      *)
(* file; and when it has written one, for an override and no file, a       *)
(* start without the override resolves to the same identifier.             *)
(***************************************************************************)
\* What the hostname file holds: its text without the line terminator.
Content(text) ==
    IF text # <<>> /\ text[Len(text)] = NL
    THEN SubSeq(text, 1, Len(text) - 1) ELSE text

AStart == \E writable \in BOOLEAN : from_env(writable)

HostResolution ==
    [][AStart =>
         /\ collector_host' =
               IF env # <<>> THEN env
               ELSE IF marker.exists THEN Content(marker.text) ELSE Hostname
         /\ marker.exists => marker' = marker
         /\ marker' # marker =>
               /\ env # <<>>
               /\ Content(marker'.text) = env
               /\ get_collector_host(<<>>, marker') = collector_host']_vars

\* The same for overrides and hostname files without blanks around the
\* name.
Plain(name) == name # <<>> /\ \A i \in 1..Len(name) : name[i] \notin {" ", NL}

HostResolutionPlain ==
    [][(/\ AStart
        /\ env # <<>> => Plain(env)
        /\ marker.exists => Plain(Content(marker.text))) =>
         /\ collector_host' =
               IF env # <<>> THEN env
               ELSE IF marker.exists THEN Content(marker.text) ELSE Hostname
         /\ marker.exists => marker' = marker
         /\ marker' # marker =>
               /\ env # <<>>
               /\ Content(marker'.text) = env
               /\ get_collector_host(<<>>, marker') = collector_host']_vars

(***************************************************************************)
(* What the claims about reviews speak of.                                 *)
(***************************************************************************)
\* The reviews a row holds.
ReviewsOf(p) ==
    IF /\ "raw_data" \in DOMAIN p
       /\ p.raw_data # None
       /\ "reviews" \in DOMAIN p.raw_data
    THEN p.raw_data.reviews ELSE <<>>

\* The timestamp a review carries, in either shape; <<>> if it has none.
StampOf(r) ==
    IF "submittedAt" \in DOMAIN r THEN r.submittedAt
    ELSE IF "submitted_at" \in DOMAIN r THEN r.submitted_at
    ELSE <<>>

Stamped(r) == StampOf(r) # <<>>

\* The instant a timestamp denotes.
InstantOf(ts) ==
    [hour |-> CHOOSE h \in 0..23 :
                  ts = <<Digits[(h \div 10) + 1], Digits[(h % 10) + 1], "Z">>,
     utc |-> TRUE]

\* The login of the reviewer, in either shape.
ReviewerOf(r) ==
    IF "author" \in DOMAIN r THEN r.author.login
    ELSE IF "user" \in DOMAIN r THEN r.user.login
    ELSE Unknown

\* A login with a bot pattern in it, whatever its case.
MatchesBot(l) ==
    \E i \in 1..Len(l) :
        l[i] \in {"[bot]", "github-actions", "dependabot", "renovate",
                  "claude", "Claude", "copilot"}

\* Every review of the row is in the REST shape.
RestShaped(p) ==
    \A i \in 1..Len(ReviewsOf(p)) :
        DOMAIN ReviewsOf(p)[i] \subseteq {"state", "user", "submitted_at"}

\* The indices of the reviews by people that carry a timestamp.
HumanReviews(p) ==
    {i \in 1..Len(ReviewsOf(p)) :
        /\ Stamped(ReviewsOf(p)[i])
        /\ ~MatchesBot(ReviewerOf(ReviewsOf(p)[i]))}

\* C28: a review with a timestamp, in the GraphQL shape (author,
\* submittedAt) as the sync job stores it or in the REST shape (user,
\* submitted_at), yields an event with its reviewer login and its parsed
\* timestamp in extract_review_events, and counts as a review in
\* get_human_review_times.
ReviewFormatsEvents(p) ==
    \A i \in 1..Len(ReviewsOf(p)) :
        Stamped(ReviewsOf(p)[i]) =>
            \E j \in 1..Len(events.list) :
                /\ events.list[j].reviewer = ReviewerOf(ReviewsOf(p)[i])
                /\ events.list[j].submitted_at =
                       InstantOf(StampOf(ReviewsOf(p)[i]))

ReviewFormatsTimes(p) ==
    \A i \in HumanReviews(p) :
        \E k \in HumanReviews(p) :
            times.first_review_at = InstantOf(StampOf(ReviewsOf(p)[k]))

ReviewFormats ==
    /\ events.returned => ReviewFormatsEvents(pr)
    /\ times.returned => ReviewFormatsTimes(pr)

\* The same for the rows whose reviews are all in the REST shape.
ReviewFormatsRest ==
    RestShaped(pr) => ReviewFormats

\* Rows in the REST shape with a stamped review have gone through both
\* functions.
ReviewFormatsRestSeen ==
    /\ events.returned
    /\ times.returned
    /\ RestShaped(pr)
    /\ HumanReviews(pr) # {}
    /\ Len(events.list) = 2

\* The reviewers, instants and states a review or an event can have.
Reviewers == Logins \cup {Unknown}

Instants == {InstantOf(ts) : ts \in TimeTexts}

\* The events of the list es that show reviewer l at instant t in state st.
EventsLike(es, l, t, st) ==
    {j \in 1..Len(es) : /\ es[j].reviewer = l
                        /\ es[j].submitted_at = t
                        /\ es[j].state = st}

\* The reviews of row p that carry a timestamp and are by l at t in state st;
\* a review without an author counts as by 'unknown'.
ReviewsLike(p, l, t, st) ==
    {i \in 1..Len(ReviewsOf(p)) : /\ Stamped(ReviewsOf(p)[i])
                                  /\ ReviewerOf(ReviewsOf(p)[i]) = l
                                  /\ InstantOf(StampOf(ReviewsOf(p)[i])) = t
                                  /\ ReviewsOf(p)[i].state = st}

Ascending(es) ==
    \A j \in 1..(Len(es) - 1) :
        es[j].submitted_at.hour <= es[j + 1].submitted_at.hour

\* C29: extract_review_events returns exactly one event per review that
\* carries a timestamp (so none for a review without one, and an empty
\* list for a row whose raw_data is missing, null or without reviews), in
\* ascending timestamp order whatever the input order; a review without an
\* author gets the reviewer 'unknown'.
EventsPerReview ==
    events.returned =>
        /\ Ascending(events.list)
        /\ \A l \in Reviewers, t \in Instants, st \in {"APPROVED", "COMMENTED"} :
               Cardinality(EventsLike(events.list, l, t, st)) =
                   Cardinality(ReviewsLike(pr, l, t, st))
        /\ \A j \in 1..Len(events.list) :
               /\ events.list[j].reviewer \in Reviewers
               /\ events.list[j].submitted_at \in Instants

\* The same for the rows whose reviews are all in the REST shape.
EventsPerReviewRest ==
    RestShaped(pr) => EventsPerReview

\* A REST row given latest first, the earlier review without a user, has gone
\* through extract_review_events.
EventsPerReviewRestSeen ==
    /\ events.returned
    /\ RestShaped(pr)
    /\ Len(ReviewsOf(pr)) = 2
    /\ Len(events.list) = 2
    /\ events.list[1].submitted_at = InstantOf(StampOf(ReviewsOf(pr)[2]))
    /\ events.list[1].submitted_at # events.list[2].submitted_at
    /\ events.list[1].reviewer = Unknown

\* The earliest instant among the reviews of p with an index in I, None if
\* there is none.
Earliest(p, I) ==
    IF I = {} THEN None
    ELSE LET i == CHOOSE k \in I :
                      \A m \in I :
                          InstantOf(StampOf(ReviewsOf(p)[k])).hour <=
                              InstantOf(StampOf(ReviewsOf(p)[m])).hour
         IN  InstantOf(StampOf(ReviewsOf(p)[i]))

HumanApprovals(p) ==
    {i \in HumanReviews(p) : ReviewsOf(p)[i].state = "APPROVED"}

\* C30: get_human_review_times returns the instant of the earliest review
\* by a reviewer who matches no bot pattern and the instant of the earliest
\* APPROVED review by such a reviewer, each None when there is no such
\* review ((None, None) when there is no review at all); and
\* extract_review_events sets is_bot on exactly the events whose reviewer
\* matches a bot pattern.
HumanReviewTimes ==
    /\ times.returned =>
           /\ times.first_review_at = Earliest(pr, HumanReviews(pr))
           /\ times.approved_at = Earliest(pr, HumanApprovals(pr))
    /\ events.returned =>
           \A j \in 1..Len(events.list) :
               events.list[j].is_bot <=> MatchesBot(events.list[j].reviewer)

\* The same for the rows whose reviews are all in the REST shape.
HumanReviewTimesRest ==
    RestShaped(pr) => HumanReviewTimes

\* A REST row with an approval by a bot before a comment by a person has
\* gone through both functions.
HumanReviewTimesRestSeen ==
    /\ times.returned
    /\ events.returned
    /\ RestShaped(pr)
    /\ Len(events.list) = 2
    /\ events.list[1].is_bot
    /\ events.list[1].state = "APPROVED"
    /\ ~events.list[2].is_bot
    /\ times.first_review_at = events.list[2].submitted_at
    /\ times.first_review_at # events.list[1].submitted_at
    /\ times.approved_at = None

(***************************************************************************)
(* Offsets and line boundaries.                                            *)
(***************************************************************************)
\* o is 0 or the position right after a line terminator of f.
AtLineBoundary(f, o) == o = 0 \/ (o <= Len(f) /\ f[o] = NL)

\* C31: whatever the interleaving of the writer's appends with the passes,
\* every offset committed to the progress store, in the map in memory and
\* in the snapshot file, is 0 or the position right after a line terminator
\* of the file; no committed offset lies inside a line whose terminator has
\* not been written yet.
LineBoundaryOffsets ==
    \A p \in Paths :
        /\ AtLineBoundary(files[p], state[p])
        /\ AtLineBoundary(files[p], Persisted(p))

\* C32: a pass over a file that is shorter than the offset recorded for it
\* (the file was truncated or rewritten) does not leave offset tracking
\* corrupted: when a pass on a file completes, the offset recorded for the
\* file does not exceed the length the file has then.
TruncationSafe ==
    [][(pc = "reading" /\ pc' # "reading") =>
           state'[cur] <= Len(files'[cur])]_vars

(***************************************************************************)
(* The counters of a process.                                              *)
(***************************************************************************)
Total(c) == c.inserted + c.skipped + c.errors

\* The step offers one more line of the current pass to the sink.
OffersLine ==
    /\ pc = "reading"
    /\ pc' = "reading"
    /\ offered' # offered

\* Exactly one counter goes up, by one.
OneCounterUp ==
    \/ stats' = [stats EXCEPT !.inserted = @ + 1]
    \/ stats' = [stats EXCEPT !.skipped = @ + 1]
    \/ stats' = [stats EXCEPT !.errors = @ + 1]

\* C33: the counters are 0 when a process starts; every call of the line
\* callback raises exactly one of inserted, skipped (duplicate) and errors
\* by one and no other step of the process changes a counter, so their sum
\* is the number of lines this process has offered to the sink.
CounterAccounting ==
    /\ [](/\ Total(stats) = calls.inserted + calls.duplicate + calls.raised
          /\ pc = "down" => stats = ZeroStats)
    /\ [][/\ OffersLine => OneCounterUp
          /\ (~OffersLine /\ pc' # "down") => stats' = stats
          /\ pc = "down" => stats' = ZeroStats]_vars

\* A restarted process has offered the line its predecessor stored and one
\* more: one duplicate, one error, nothing inserted by this process.
CounterAccountingWitness ==
    /\ stats = [inserted |-> 0, skipped |-> 1, errors |-> 1]
    /\ Cardinality(sink) = 1
    /\ pc = "reading"

(***************************************************************************)
(* C34.  should_skip_pr: when sync_repo takes a pull request from the      *)
(* fetch, it counts it as skipped exactly when the database holds its      *)
(* number, its GitHub state is MERGED or CLOSED, and it was not updated    *)
(* within the last 24 hours; every other pull request (new, open, or       *)
(* updated within the last 24 hours) is queued for syncing.                *)
(***************************************************************************)
TakesPr ==
    /\ spc = "nodes"
    /\ gen.nodes # <<>>
    /\ gen'.nodes = Tail(gen.nodes)

InDatabase(number) == number \in get_existing_prs_for_repo(Server)

Skippable(p) ==
    /\ InDatabase(p.number)
    /\ p.state \in {"MERGED", "CLOSED"}
    /\ ~(Now - p.updatedAt < 24)

SkipRule ==
    [][TakesPr =>
         LET p == Head(gen.nodes)
         IN  IF Skippable(p)
             THEN /\ sr'.stats.skipped = sr.stats.skipped + 1
                  /\ sr'.prs_to_sync = sr.prs_to_sync
             ELSE /\ sr'.stats.skipped = sr.stats.skipped
                  /\ sr'.prs_to_sync = Append(sr.prs_to_sync, p)]_vars

SkipRuleWitness ==
    /\ spc = "processing"
    /\ sr.stats.skipped = 2
    /\ \E i, j, k \in DOMAIN sr.prs_to_sync :
           /\ LET p == sr.prs_to_sync[i]
              IN  InDatabase(p.number) /\ p.state = "MERGED"
                  /\ Now - p.updatedAt < 24
           /\ LET p == sr.prs_to_sync[j]
              IN  InDatabase(p.number) /\ p.state = "OPEN"
                  /\ Now - p.updatedAt > 24
           /\ LET p == sr.prs_to_sync[k]
              IN  ~InDatabase(p.number) /\ p.state = "CLOSED"
                  /\ Now - p.updatedAt > 24

(***************************************************************************)
(* C35.  Sync accounting: when sync_repo returns, skipped + synced +       *)
(* errors equals the number of pull requests the fetch yielded, each       *)
(* yielded pull request being counted once; a pull request whose transform *)
(* or upsert fails adds one error and the loop goes on with the next one.  *)
(***************************************************************************)
\* The pull requests of server g that precede the first one older than the
\* window, in the server's order.
InWindow(g) ==
    {i \in 1..g.n : \A j \in 1..i : ~(Node(g, j).updatedAt < since)}

Returning == spc = "processing" /\ sr.i = Len(sr.prs_to_sync)

SyncAccounting ==
    /\ [](/\ spc \in {"nodes", "request", "processing"} =>
              /\ sr.stats.skipped + Len(sr.prs_to_sync) = sr.total_prs_fetched
              /\ sr.stats.synced + sr.stats.errors = sr.i
          /\ Returning =>
              sr.stats.skipped + sr.stats.synced + sr.stats.errors
                  = Cardinality(InWindow(Server)))
    /\ [][(spc = "processing" /\ failures' = failures + 1) =>
             /\ sr'.stats.errors = sr.stats.errors + 1
             /\ sr'.stats.synced = sr.stats.synced
             /\ sr'.i = sr.i + 1
             /\ sr'.prs_to_sync = sr.prs_to_sync
             /\ spc' = "processing"]_vars

SyncAccountingWitness ==
    /\ Returning
    /\ failures = 1
    /\ sr.stats = [synced |-> 9, skipped |-> 2, errors |-> 1, api_calls |-> 1]

(***************************************************************************)
(* C36.  When sync_repo is about to return, its api_calls statistic equals *)
(* the number of GraphQL page requests get_pulls_graphql issued during     *)
(* that sync.                                                              *)
(***************************************************************************)
ApiCallsExact == Returning => sr.stats.api_calls = Len(requests)

(***************************************************************************)
(* C37.  Paged fetch cut-off: get_pulls_graphql yields, in the server's    *)
(* order, exactly the pull requests that precede the first one older than  *)
(* `since`; it issues no page request after meeting that pull request;     *)
(* otherwise it ends after the first page whose hasNextPage is false; the  *)
(* first request has no cursor and each later one the endCursor of the     *)
(* page before it.                                                         *)
(***************************************************************************)
\* The page the server returned for the i-th request of this sync.
PageOf(i) == graphql(Server, requests[i])

HasOld(page) ==
    \E j \in DOMAIN page.nodes : page.nodes[j].updatedAt < since

CursorsFollow ==
    /\ requests[1] = 0
    /\ \A i \in 1..(Len(requests) - 1) :
           /\ ~HasOld(PageOf(i))
           /\ PageOf(i).hasNextPage
           /\ requests[i + 1] = PageOf(i).endCursor

FetchEnded ==
    /\ sr.total_prs_fetched = Cardinality(InWindow(Server))
    /\ HasOld(PageOf(Len(requests))) \/ ~PageOf(Len(requests)).hasNextPage

PagedCutOff ==
    /\ [](/\ spc \in {"nodes", "processing"} => CursorsFollow
          /\ spc = "processing" => FetchEnded)
    /\ [][/\ TakesPr =>
              /\ Head(gen.nodes) = Node(Server, sr.total_prs_fetched + 1)
              /\ sr.total_prs_fetched + 1 \in InWindow(Server)
              /\ sr'.total_prs_fetched = sr.total_prs_fetched + 1
          /\ (spc = "nodes" /\ gen.nodes # <<>> /\ ~TakesPr) =>
              /\ Head(gen.nodes).updatedAt < since
              /\ spc' = "processing"
          /\ spc \in {"nodes", "processing"} => requests' = requests]_vars

PagedCutOffWitness ==
    /\ spc = "processing"
    /\ requests = <<0, 50>>
    /\ sr.total_prs_fetched = 60
    /\ PageOf(2).hasNextPage

(***************************************************************************)
(* C38.  Repository isolation in sync_all_repos: a failure while syncing   *)
(* one repository is recorded as that repository's error, adds exactly one *)
(* to total_errors and changes no other total, and the repositories after  *)
(* it are still synced; total_synced, total_skipped and total_api_calls    *)
(* are the sums of the statistic over the repositories that completed, and *)
(* total_errors is the sum of their errors plus one for each repository    *)
(* that failed; with no token or no repositories configured no request is  *)
(* made and all totals are 0.                                              *)
(***************************************************************************)
Completed ==
    {r \in DOMAIN all_stats.repos : "synced" \in DOMAIN all_stats.repos[r]}

Failed ==
    {r \in DOMAIN all_stats.repos : "error" \in DOMAIN all_stats.repos[r]}

RECURSIVE SumStat(_, _)
SumStat(rs, k) ==
    IF rs = {} THEN 0
    ELSE LET r == CHOOSE x \in rs : TRUE
         IN  all_stats.repos[r][k] + SumStat(rs \ {r}, k)

Unconfigured == ~config.github_token \/ config.github_repos = <<>>

Configured == {config.github_repos[i] : i \in DOMAIN config.github_repos}

TotalsAddUp ==
    /\ all_stats.total_synced = SumStat(Completed, "synced")
    /\ all_stats.total_skipped = SumStat(Completed, "skipped")
    /\ all_stats.total_api_calls = SumStat(Completed, "api_calls")
    /\ all_stats.total_errors
           = SumStat(Completed, "errors") + Cardinality(Failed)

RepoFails == spc = "request" /\ spc' = "repos"

RepoIsolation ==
    /\ [](/\ TotalsAddUp
          /\ spc = "returned" =>
              IF Unconfigured
              THEN all_stats = ZeroTotals /\ requests = <<>>
              ELSE DOMAIN all_stats.repos = Configured)
    /\ [][/\ RepoFails =>
              /\ all_stats'.repos
                     = (config.github_repos[sr.repo] :> [error |-> TRUE])
                       @@ all_stats.repos
              /\ all_stats'.total_errors = all_stats.total_errors + 1
              /\ all_stats'.total_synced = all_stats.total_synced
              /\ all_stats'.total_skipped = all_stats.total_skipped
              /\ all_stats'.total_api_calls = all_stats.total_api_calls
          /\ (spc = "processing" /\ spc' = "repos") =>
              all_stats'.repos[config.github_repos[sr.repo]] = sr.stats
          /\ (spc = "scheduled" /\ Unconfigured) =>
              spc' = "returned" /\ requests' = requests]_vars

RepoIsolationWitness ==
    /\ spc = "returned"
    /\ DOMAIN all_stats.repos = {"o/r1", "o/r2"}
    /\ all_stats.repos["o/r1"] = [error |-> TRUE]
    /\ all_stats.repos["o/r2"]
           = [synced |-> 9, skipped |-> 2, errors |-> 1, api_calls |-> 1]
    /\ all_stats.total_errors = 2

(***************************************************************************)
(* C39.  Shared dashboard connection: whatever the interleaving of the     *)
(* sync thread's upsert_pr with a request handler's get_prs, the query of  *)
(* get_prs never executes on a connection that upsert_pr has discarded     *)
(* since the query's ensure_connected, and neither operation dereferences  *)
(* a null connection.                                                      *)
(***************************************************************************)
SharedConnectionSafe ==
    /\ [](qpc # "raised" /\ upc # "raised")
    /\ [][(qpc = "cursor" /\ qpc' = "idle") => qcur \notin discarded]_vars

=============================================================================
